---------------------------- MODULE Spec2Model ----------------------------
(***************************************************************************)
(* A model of the wildfire cellular automaton of spellfire: the terrain    *)
(* grid (GameMap), its procedural generation (NoiseMap), the tick          *)
(* (GameMap::update), the bounds-checked accessors, and the handlers that  *)
(* command the grid (meteor impacts, mana-forge explosions, water golems, *)
(* storm mages, lumber mills, minotaurs), the entity-per-cell automaton of *)
(* wildfire/mod.rs (new_cell_state, lightning strikes), the global wind    *)
(* (WindDirection, wandery_wind), story mode and its victory conditions,   *)
(* the destruction of burning buildings (burn_buildings,                   *)
(* destroy_marked_buildings) and the placement commands that charge        *)
(* PlayerResources.                                                        *)
(*                                                                         *)
(* Fixed point: an f32 in [0, 1] is an integer number of hundredths        *)
(* (moisture 0.2 is 20, MOISTURE_DECAY_RATE 0.01 is 1); the redistributed  *)
(* noise is in thousandths.  A coordinate pair (IVec2) is <<x, y>>.        *)
(* Wind angles are in half degrees (360.0 is 720) and wind strengths in    *)
(* halves (10.0 is 20).                                                    *)
(***************************************************************************)
EXTENDS Integers, Sequences, FiniteSets, TLC

VARIABLES
    size_x,     \* GameMap.size_x (0 while no map has been spawned)
    size_y,     \* GameMap.size_y
    seed,       \* the seed the map was generated from
    data,       \* GameMap.data: [<<x, y>> -> TerrainCellState]
    meteors,    \* target_coord of every Meteor entity in flight
    golems,     \* BuildingLocation of every WaterGolem entity
    minotaurs,  \* Minotaur.location of every Minotaur entity
    wind,       \* the WindDirection resource (None until it is initialised)
    resources,  \* the PlayerResources resource: mana, mana_drain, lumber
    building_mode,  \* the BuildingMode resource
    tracker,    \* the placement-tracking entity (None when there is none)
    buildings,  \* the entities that carry a BuildingType
    level,      \* the StoryModeLevel resource (None outside story mode)
    launched,   \* the bolts spawn_story_meteor_bolts has triggered, in order
    victory,    \* track_victory_conditions has found its condition met
    op,         \* the handler that ran last
    pre,        \* GameMap.data as it was when that handler started
    ret,        \* what the last accessor call returned
    steps       \* handlers run so far

\* the state of the buildings, the player and the story level
ecs == <<resources, building_mode, tracker, buildings, level, launched, victory>>

vars == <<size_x, size_y, seed, data, meteors, golems, minotaurs, wind, ecs, op, pre, ret,
          steps>>

-----------------------------------------------------------------------------
(* Bounds of the model *)

\* handlers run in one behaviour
MaxSteps == 5
\* Meteor entities in flight at once
MaxMeteors == 1
\* WaterGolem entities alive at once
MaxGolems == 1
\* accessor probes reach this far outside the grid on every side
ProbeMargin == 2

\* seeds the map is generated from
Seeds == {0, 1}
\* (size_x, size_y) of the generated maps
Dims == {<<3, 2>>, <<2, 3>>}
\* the maps the simulation is left to burn on
BurnSeeds == {52}
BurnDims == {<<2, 2>>}

-----------------------------------------------------------------------------
(* Integer helpers *)

Min(a, b) == IF a < b THEN a ELSE b
Max(a, b) == IF a > b THEN a ELSE b
Clamp(v, lo, hi) == Max(lo, Min(hi, v))

\* TLC's integers are 32 bits wide, as i32 is.
I32_MAX == 2147483647
\* `i as usize` of an i32: a negative i sign-extends to 2^64 + i, above every
\* size a map has; it is saturated here at the largest integer TLC has
AsUsize(i) == IF i < 0 THEN I32_MAX ELSE i
\* `u as i32` of a usize: the low 32 bits, which for the sizes TLC can hold
\* (below 2^31) are u itself
AsI32(u) == IF u <= I32_MAX THEN u ELSE -1

U8SaturatingSubWraps(a, b) == (a - b) % 256
\* u8::saturating_sub
U8SaturatingSub(a, b) == IF a - b < 0 THEN 0 ELSE a - b

-----------------------------------------------------------------------------
(* TerrainType, TerrainCellState *)

TerrainType == {"Dirt", "Stone", "Grassland", "Tree", "Building", "Fire", "Smoldering"}

Vec2Zero == <<0, 0>>

\* #[derive(Default)]: Grassland is the #[default] terrain
DefaultCell ==
    [terrain |-> "Grassland", wind |-> Vec2Zero, moisture |-> 0, fuel_load |-> 0,
     dirty |-> FALSE]

\* TerrainType::burn_rate, in hundredths
BurnRate(terrain) ==
    CASE terrain = "Grassland" -> 80
      [] terrain = "Tree" -> 40
      [] OTHER -> 0

\* TerrainCellState::mark_dirty
MarkDirty(cell) == [cell EXCEPT !.dirty = TRUE]

\* Option<&TerrainCellState> as the coordinates of the cell referred to; Panic is
\* the abort of an index out of range
None == [tag |-> "None", val |-> <<>>]
Some(v) == [tag |-> "Some", val |-> v]
Panic == [tag |-> "Panic", val |-> <<>>]

-----------------------------------------------------------------------------
(* NoiseMap *)

\* (noise / 1.75).powf(NOISE_REDIST_FACTOR) in thousandths, for noise / 1.75 in
\* hundredths: floor(1000 * (i / 100) ^ 1.46) at i = 0 .. 100
PowRedist ==
    <<0, 1, 3, 5, 9, 12, 16, 20, 25, 29, 34, 39, 45, 50, 56, 62, 68, 75, 81, 88,
      95, 102, 109, 116, 124, 132, 139, 147, 155, 164, 172, 180, 189, 198, 206,
      215, 225, 234, 243, 252, 262, 272, 281, 291, 301, 311, 321, 332, 342, 352,
      363, 374, 384, 395, 406, 417, 428, 440, 451, 462, 474, 485, 497, 509, 521,
      533, 545, 557, 569, 581, 594, 606, 619, 631, 644, 657, 669, 682, 695, 708,
      721, 735, 748, 761, 775, 788, 802, 816, 829, 843, 857, 871, 885, 899, 913,
      927, 942, 956, 970, 985, 1000>>

\* FastNoiseLite::get_noise_2d of the generator seeded with s, in hundredths of
\* [-1, 1].  The library is outside the repository: this is a fixed stand-in,
\* a function of the seed and the coordinates (in half units) and nothing else.
GetNoise2d(s, hx, hy) == ((s * 53 + hx * 29 + hy * 71 + hx * hy * 13) % 201) - 100

\* NoiseMap::noise: remap(-0.5, 0.5, 0.0, 1.0).clamp(0.0, 1.0)
Noise(s, hx, hy) == Clamp(GetNoise2d(s, hx, hy) + 50, 0, 100)

\* NoiseMap::moisture: MOISTURE_OFFSET 17.5 is 35 half units
NoiseMoisture(s, x, y) == Noise(s, 2 * x + 35, 2 * y + 35)

\* NoiseMap::sample: NOISE_SCALE 0.5 makes x one half unit
NoiseSample(s, x, y) ==
    LET sum4 == 4 * Noise(s, x, y) + 2 * Noise(s, 2 * x, 2 * y) + Noise(s, 4 * x, 4 * y)
        noise == PowRedist[(sum4 \div 7) + 1]
        DIRT == 30
        GRASS == 500
        TREE == 750
    IN  IF noise < DIRT THEN <<"Dirt", 0>>
        ELSE IF noise < GRASS
            THEN <<"Grassland", Clamp((12 * (noise - DIRT)) \div (GRASS - DIRT), 1, 12)>>
        ELSE IF noise < TREE
            THEN <<"Tree", Clamp((24 * (noise - GRASS)) \div (TREE - GRASS), 1, 24)>>
        ELSE <<"Stone", Clamp((10 * (noise - TREE)) \div (1000 - TREE), 1, 10)>>

-----------------------------------------------------------------------------
(* GameMap: construction and accessors *)

Grid(sx, sy) == (0 .. sx - 1) \X (0 .. sy - 1)
Cells == Grid(size_x, size_y)

\* the cell GameMap::new writes at (x, y)
SampledCell(s, x, y) ==
    LET t == NoiseSample(s, x, y)
    IN  [DefaultCell EXCEPT
            !.terrain = t[1],
            !.fuel_load = t[2],
            !.moisture = IF t[1] \in {"Grassland", "Tree"}
                         THEN NoiseMoisture(s, x, y) ELSE 0]

\* row.iter_mut().enumerate().take(size_y): the columns the inner loop visits
InnerTake(sx, sy) == Min(sx, sy)

\* GameMap::new
GameMapNew(s, sx, sy) ==
    [c \in Grid(sx, sy) |->
        IF c[1] < InnerTake(sx, sy) THEN SampledCell(s, c[1], c[2]) ELSE DefaultCell]

\* mapgen.rs Map::new: for y in 0..size_y, for x in 0..size_x
MapNew(s, sx, sy) == [c \in Grid(sx, sy) |-> SampledCell(s, c[1], c[2])]

\* GameMap::is_valid_coords
IsValidCoords(loc) ==
    ~(loc[1] < 0 \/ AsUsize(loc[1]) >= size_x \/ loc[2] < 0 \/ AsUsize(loc[2]) >= size_y)

GetOffByOne(loc) ==
    IF loc[1] < 0 \/ loc[1] > AsI32(size_x) \/ loc[2] < 0 \/ loc[2] > AsI32(size_y)
    THEN None
    ELSE IF <<AsUsize(loc[1]), AsUsize(loc[2])>> \in Cells
         THEN Some(<<AsUsize(loc[1]), AsUsize(loc[2])>>) ELSE Panic
\* GameMap::get and GameMap::get_mut (the same guard and the same index): the
\* cell referred to, None, or the panic of an index out of range
Get(loc) ==
    IF loc[1] < 0 \/ loc[1] >= AsI32(size_x) \/ loc[2] < 0 \/ loc[2] >= AsI32(size_y)
    THEN None
    ELSE IF <<AsUsize(loc[1]), AsUsize(loc[2])>> \in Cells
         THEN Some(<<AsUsize(loc[1]), AsUsize(loc[2])>>) ELSE Panic

\* GameMap::get_mut
GetMut(loc) ==
    IF loc[1] < 0 \/ loc[1] >= AsI32(size_x) \/ loc[2] < 0 \/ loc[2] >= AsI32(size_y)
    THEN None
    ELSE IF <<AsUsize(loc[1]), AsUsize(loc[2])>> \in Cells
         THEN Some(<<AsUsize(loc[1]), AsUsize(loc[2])>>) ELSE Panic

\* GameMap::is_on_fire: if let Some(cell) = self.get(loc) { matches!(.., Fire) } else { false }
IsOnFire(loc) ==
    LET r == Get(loc)
    IN  IF r.tag = "Some" THEN data[r.val].terrain = "Fire" ELSE FALSE


\* GameMap::cells_within_range, in the order it yields
RangeFrom(lo, hi) == [i \in 1 .. Max(0, hi - lo + 1) |-> lo + i - 1]
RECURSIVE SeqConcat(_)
SeqConcat(ss) == IF ss = <<>> THEN <<>> ELSE Head(ss) \o SeqConcat(Tail(ss))
\* a + b in i32 for a, b >= 0, as a build without overflow checks computes it
\* (a build with them panics instead)
I32WrappingAdd(a, b) ==
    IF a > I32_MAX - b THEN (a - I32_MAX - 1) + (b - I32_MAX - 1) ELSE a + b

\* IVec2::distance_squared, for differences whose squares are i32
DistanceSquared(v, w) ==
    I32WrappingAdd((v[1] - w[1]) * (v[1] - w[1]), (v[2] - w[2]) * (v[2] - w[2]))

CellsWithinBox(center, range) ==
    LET ys == RangeFrom(Max(center[2] - range, 0), Max(center[2] + range, 0))
        xs == RangeFrom(Max(center[1] - range, 0), Max(center[1] + range, 0))
        keep(x, y) == ~(AsUsize(x) >= size_x \/ AsUsize(y) >= size_y)
        row(y) == SelectSeq([i \in 1 .. Len(xs) |-> <<xs[i], y>>], LAMBDA v : keep(v[1], v[2]))
    IN  SeqConcat([j \in 1 .. Len(ys) |-> row(ys[j])])
CellsWithinRange(center, range) ==
    LET ys == RangeFrom(Max(center[2] - range, 0), Max(center[2] + range, 0))
        xs == RangeFrom(Max(center[1] - range, 0), Max(center[1] + range, 0))
        keep(x, y) == ~(DistanceSquared(<<x, y>>, center) > range * range
                        \/ AsUsize(x) >= size_x \/ AsUsize(y) >= size_y)
        row(y) == SelectSeq([i \in 1 .. Len(xs) |-> <<xs[i], y>>], LAMBDA v : keep(v[1], v[2]))
    IN  SeqConcat([j \in 1 .. Len(ys) |-> row(ys[j])])

SeqToSet(s) == {s[i] : i \in 1 .. Len(s)}

-----------------------------------------------------------------------------
(* GameMap::update *)

NEIGHBOURHOOD_SIZE == 8

\* Left, Top Left, Top, Top Right, Right, Bottom Right, Bottom, Bottom Left
NEIGHBOUR_COORDINATES ==
    <<<<-1, 0>>, <<-1, 1>>, <<0, 1>>, <<1, 1>>, <<1, 0>>, <<1, -1>>, <<0, -1>>, <<-1, -1>>>>

\* one item of GameMap::neighbours
Neighbour(x, y, coord) ==
    IF x + coord[1] <= 0 \/ y + coord[2] <= 0 \/ coord[1] + x >= AsI32(size_x)
       \/ coord[2] + y >= AsI32(size_y)
    THEN None
    ELSE Some(<<coord[1] + x, coord[2] + y>>)

\* GameMap::neighbours
Neighbours(x, y) ==
    [idx \in 1 .. NEIGHBOURHOOD_SIZE |-> Neighbour(x, y, NEIGHBOUR_COORDINATES[idx])]

MOISTURE_DECAY_RATE == 1

\* burn_chance, in units of 1e-4, of a cell whose local wind is the zero vector:
\* wind_strength is 0 and so is wind_factor
BurnChance(cell) ==
    LET base_probability == BurnRate(cell.terrain)
        moisture_factor == 100 - cell.moisture
    IN  Clamp(base_probability * moisture_factor, 0, 10000)

\* rng.gen_bool(burn_chance * rng_factor) can come out true
CanIgnite(cell) == BurnChance(cell) > 0

DecayKeepsFire(cell) == [cell EXCEPT !.fuel_load = U8SaturatingSub(cell.fuel_load, 1)]
\* the Fire arm when the BURN_DECAY_RATE roll succeeds
Decay(cell) ==
    LET new_fuel_load == U8SaturatingSub(cell.fuel_load, 1)
    IN  IF new_fuel_load = 0
        THEN [cell EXCEPT !.fuel_load = new_fuel_load, !.terrain = "Smoldering",
                          !.dirty = TRUE]
        ELSE [cell EXCEPT !.fuel_load = new_fuel_load]

\* reduce moisture of `self` for each neighbouring fire cell
Dry(cell) == [cell EXCEPT !.moisture = Max(cell.moisture - MOISTURE_DECAY_RATE, 0)]

\* the cell set on fire by a neighbour
Ignite(cell) == [cell EXCEPT !.terrain = "Fire", !.dirty = TRUE]

\* the scan that treats every neighbour as if it were Fire
RECURSIVE ScanAnyNeighbour(_, _, _)
ScanAnyNeighbour(d, c, idx) ==
    IF idx > NEIGHBOURHOOD_SIZE THEN {d}
    ELSE LET n == Neighbour(c[1], c[2], NEIGHBOUR_COORDINATES[idx])
         IN  IF n.tag = "None" THEN ScanAnyNeighbour(d, c, idx + 1)
             ELSE LET d1 == [d EXCEPT ![c] = Dry(d[c])]
                  IN  (IF CanIgnite(d1[c])
                       THEN {[d1 EXCEPT ![c] = Ignite(d1[c])]} ELSE {})
                      \cup ScanAnyNeighbour(d1, c, idx + 1)

\* The Grassland | Tree arm from neighbour idx on: every grid the rolls can
\* leave.  A successful roll ends the loop (break).
RECURSIVE ScanNeighbours(_, _, _)
ScanNeighbours(d, c, idx) ==
    IF idx > NEIGHBOURHOOD_SIZE THEN {d}
    ELSE LET n == Neighbour(c[1], c[2], NEIGHBOUR_COORDINATES[idx])
         IN  IF n.tag = "None" THEN ScanNeighbours(d, c, idx + 1)
             ELSE IF d[n.val].terrain = "Fire"
                  THEN LET d1 == [d EXCEPT ![c] = Dry(d[c])]
                       IN  (IF CanIgnite(d1[c])
                            THEN {[d1 EXCEPT ![c] = Ignite(d1[c])]} ELSE {})
                           \cup ScanNeighbours(d1, c, idx + 1)
                  ELSE ScanNeighbours(d, c, idx + 1)

\* the scan that goes on after the cell has caught fire
RECURSIVE ScanWithoutBreak(_, _, _)
ScanWithoutBreak(d, c, idx) ==
    IF idx > NEIGHBOURHOOD_SIZE THEN {[grid |-> d, examined |-> {}]}
    ELSE LET n == Neighbour(c[1], c[2], NEIGHBOUR_COORDINATES[idx])
             Read(S) == {[s EXCEPT !.examined = @ \cup {idx}] : s \in S}
         IN  IF n.tag = "None" THEN ScanWithoutBreak(d, c, idx + 1)
             ELSE IF d[n.val].terrain = "Fire"
                  THEN LET d1 == [d EXCEPT ![c] = Dry(d[c])]
                       IN  (IF CanIgnite(d1[c])
                            THEN Read(ScanWithoutBreak([d1 EXCEPT ![c] = Ignite(d1[c])],
                                                       c, idx + 1))
                            ELSE {})
                           \cup Read(ScanWithoutBreak(d1, c, idx + 1))
                  ELSE Read(ScanWithoutBreak(d, c, idx + 1))

\* The Grassland | Tree arm from neighbour idx on, with the neighbours whose
\* terrain the loop has read: `examined` holds the index of every Some(n) the
\* loop reached.  A successful roll ends the loop (break).
RECURSIVE Scan(_, _, _)
Scan(d, c, idx) ==
    IF idx > NEIGHBOURHOOD_SIZE THEN {[grid |-> d, examined |-> {}]}
    ELSE LET n == Neighbour(c[1], c[2], NEIGHBOUR_COORDINATES[idx])
             Read(S) == {[s EXCEPT !.examined = @ \cup {idx}] : s \in S}
         IN  IF n.tag = "None" THEN Scan(d, c, idx + 1)
             ELSE IF d[n.val].terrain = "Fire"
                  THEN LET d1 == [d EXCEPT ![c] = Dry(d[c])]
                       IN  (IF CanIgnite(d1[c])
                            THEN {[grid |-> [d1 EXCEPT ![c] = Ignite(d1[c])],
                                   examined |-> {idx}]}
                            ELSE {})
                           \cup Read(Scan(d1, c, idx + 1))
                  ELSE Read(Scan(d, c, idx + 1))

\* the update in which a Smoldering cell can flare up again
UpdateCellRekindles(d, c) ==
    CASE d[c].terrain = "Fire" -> {d, [d EXCEPT ![c] = Decay(d[c])]}
      [] d[c].terrain \in {"Grassland", "Tree"} -> ScanNeighbours(d, c, 1)
      [] d[c].terrain = "Smoldering" -> {d, [d EXCEPT ![c] = Ignite(d[c])]}
      [] OTHER -> {d}

UpdateCellTouchesInert(d, c) ==
    CASE d[c].terrain = "Fire" -> {d, [d EXCEPT ![c] = Decay(d[c])]}
      [] d[c].terrain \in {"Grassland", "Tree"} -> ScanNeighbours(d, c, 1)
      [] OTHER -> {[d EXCEPT ![c] = MarkDirty(d[c])]}
\* one iteration of the loops of update, at cell c
UpdateCell(d, c) ==
    CASE d[c].terrain = "Fire" -> {d, [d EXCEPT ![c] = Decay(d[c])]}
      [] d[c].terrain \in {"Grassland", "Tree"} -> ScanNeighbours(d, c, 1)
      [] d[c].terrain \in {"Dirt", "Stone", "Smoldering"} -> {d}
      [] OTHER -> {d}

\* the cells taken from the last to the first
CellAtReversed(i) ==
    LET j == size_x * size_y - 1 - i IN <<j % size_x, j \div size_x>>

\* for y in 0..size_y, for x in 0..size_x: the i-th cell visited
CellAt(i) == <<i % size_x, i \div size_x>>

\* the grids update can leave, from the i-th cell on
RECURSIVE UpdateFrom(_, _)
UpdateFrom(d, i) ==
    IF i >= size_x * size_y THEN {d}
    ELSE UNION {UpdateFrom(d2, i + 1) : d2 \in UpdateCell(d, CellAt(i))}


-----------------------------------------------------------------------------
(* The handlers.  Each records itself in op, the grid it started from in    *)
(* pre, and counts as one step.  Sprites and sounds are not part of this    *)
(* state; the handlers of this section leave PlayerResources alone.         *)

NoRet == [loc |-> <<>>, valid |-> FALSE, get |-> None, get_mut |-> None,
          on_fire |-> FALSE, panicked |-> FALSE, range |-> 0, cells |-> <<>>]

MapExists == size_x > 0 /\ size_y > 0
Running == op # "panic" /\ steps < MaxSteps

Ran(name) ==
    /\ op' = name
    /\ pre' = data
    /\ steps' = steps + 1

Init ==
    /\ size_x = 0
    /\ size_y = 0
    /\ seed = 0
    /\ data = <<>>
    /\ meteors = {}
    /\ golems = {}
    /\ minotaurs = {}
    /\ wind = None
    /\ resources = [mana |-> 0, mana_drain |-> 0, lumber |-> 100]
    /\ building_mode = "None"
    /\ tracker = None
    /\ buildings = {}
    /\ level = None
    /\ launched = <<>>
    /\ victory = FALSE
    /\ op = "init"
    /\ pre = <<>>
    /\ ret = NoRet
    /\ steps = 0

\* a map is spawned: the GameMap resource becomes
\* GameMap::new(seed, sprite_size, size_x, size_y)
SpawnMap(s, sx, sy) ==
    /\ Running
    /\ ~MapExists
    /\ size_x' = sx
    /\ size_y' = sy
    /\ seed' = s
    /\ data' = GameMapNew(s, sx, sy)
    /\ Ran("spawn_map")
    /\ ret' = NoRet
    /\ UNCHANGED <<meteors, golems, minotaurs, wind, ecs>>

\* update_map, every 100 ms while a GameMap exists: map.update(wind.0)
TickGrid ==
    /\ op # "panic"
    /\ MapExists
    /\ data' \in UpdateFrom(data, 0)
    /\ ret' = NoRet
    /\ UNCHANGED <<size_x, size_y, seed, meteors, golems, minotaurs, wind, ecs>>

\* a tick that is recorded in op and pre
Tick ==
    /\ TickGrid
    /\ op' = "update"
    /\ pre' = data

Update ==
    /\ steps < MaxSteps
    /\ Tick
    /\ steps' = steps + 1

Flammable == {"Grassland", "Tree", "Building"}

\* handle_meteor_strike on OnMeteorStrike(loc)
MeteorStrike(loc) ==
    /\ Running
    /\ MapExists
    /\ Cardinality(meteors) < MaxMeteors
    /\ LET cell == Get(loc)
       IN  IF cell.tag = "Some" /\ data[cell.val].terrain \in {"Grassland", "Tree"}
           THEN meteors' = meteors \cup {loc}
           ELSE meteors' = meteors
    /\ Ran("meteor_strike")
    /\ ret' = NoRet
    /\ UNCHANGED <<size_x, size_y, seed, data, golems, minotaurs, wind, ecs>>

METEOR_RANGE == 5

\* the cells the impact of a meteor aimed at target may set on fire
MeteorPoints(target) ==
    {c \in SeqToSet(CellsWithinRange(target, METEOR_RANGE)) :
        LET r == Get(c) IN r.tag = "Some" /\ data[r.val].terrain \in Flammable}

MAX_METEOR_FIRES == 4

\* for _ in 0..rng.gen_range(2..=4) { points[rng.gen_range(0..points.len())] }: the
\* sets of cells 2 to 4 draws with repetition can name
MeteorHits(points) == {hit \in SUBSET points : Cardinality(hit) \in 1 .. MAX_METEOR_FIRES}

\* cell.dirty = true; cell.terrain = TerrainType::Fire, on every cell drawn
MeteorBurn(d, hit) ==
    [c \in DOMAIN d |->
        IF c \in hit THEN [d[c] EXCEPT !.dirty = TRUE, !.terrain = "Fire"] ELSE d[c]]

\* handle_meteor_impacts, for the meteor that has reached target: 2..=4 draws
\* of an index into points, each setting the cell drawn dirty and on Fire.
\* gen_range(0..0) panics when points is empty.
MeteorImpact(target) ==
    /\ Running
    /\ target \in meteors
    /\ LET points == MeteorPoints(target)
       IN  \/ /\ points = {}
              /\ data' = data
              /\ meteors' = meteors
              /\ Ran("panic")
           \/ /\ points # {}
              /\ \E hit \in MeteorHits(points) : data' = MeteorBurn(data, hit)
              /\ meteors' = meteors \ {target}
              /\ Ran("meteor_impact")
    /\ ret' = NoRet
    /\ UNCHANGED <<size_x, size_y, seed, golems, minotaurs, wind, ecs>>

FIREBALL_REACH == 14
MAX_FIREBALLS == 6

\* loc + IVec2::new(gen_range(-14..=14), gen_range(-14..14)) can be tile c
FireballReaches(loc, c) ==
    /\ c[1] - loc[1] \in -FIREBALL_REACH .. FIREBALL_REACH
    /\ c[2] - loc[2] \in -FIREBALL_REACH .. FIREBALL_REACH - 1

\* the number of tiles a fireball can be aimed at
FireballTileCount == (2 * FIREBALL_REACH + 1) * (2 * FIREBALL_REACH)

\* if let Some(cell) = map.get_mut(fire_tile_coords) { cell.terrain = Fire; cell.mark_dirty() }
FireballIgnites(d, c) == MarkDirty([d[c] EXCEPT !.terrain = "Fire"])

\* handle_despawned_buildings for a ManaForge whose BuildingLocation is loc (a
\* forge is placed on valid coordinates only): 2..=6 fireballs, each at a tile
\* of the grid (hit) or off it
ForgeExplosion(loc) ==
    /\ Running
    /\ MapExists
    /\ IsValidCoords(loc)
    /\ LET on_grid == {c \in Cells : FireballReaches(loc, c) /\ GetMut(c).tag = "Some"}
       IN  \E hit \in SUBSET on_grid :
              /\ Cardinality(hit) <= MAX_FIREBALLS
              /\ hit = {} => Cardinality(on_grid) < FireballTileCount
              /\ data' = [c \in Cells |->
                           IF c \in hit THEN FireballIgnites(data, c) ELSE data[c]]
    /\ Ran("forge_explosion")
    /\ ret' = NoRet
    /\ UNCHANGED <<size_x, size_y, seed, meteors, golems, minotaurs, wind, ecs>>

BUILDING_FOOTPRINT_OFFSETS == <<<<0, 0>>, <<1, 0>>, <<1, 1>>, <<0, 1>>>>

\* spawn_water_golem when it spawns the golem (mana, parent forge and
\* coordinates accepted): the footprint becomes Building
SpawnWaterGolem(coords) ==
    /\ Running
    /\ MapExists
    /\ IsValidCoords(coords)
    /\ Cardinality(golems) < MaxGolems
    /\ coords \notin golems
    /\ LET footprint == {<<coords[1] + BUILDING_FOOTPRINT_OFFSETS[i][1],
                           coords[2] + BUILDING_FOOTPRINT_OFFSETS[i][2]>> : i \in 1 .. 4}
       IN  data' = [c \in Cells |->
                     IF c \in footprint /\ GetMut(c).tag = "Some"
                     THEN [data[c] EXCEPT !.terrain = "Building"] ELSE data[c]]
    /\ golems' = golems \cup {coords}
    /\ Ran("spawn_water_golem")
    /\ ret' = NoRet
    /\ UNCHANGED <<size_x, size_y, seed, meteors, minotaurs, wind, ecs>>

WATER_GOLEM_RANGE == 3
GOLEM_MOISTURE == 20

MoistenUnclamped(cell) == MarkDirty([cell EXCEPT !.moisture = cell.moisture + GOLEM_MOISTURE])
\* current.moisture = (current.moisture + 0.2).clamp(0.0, 1.0); current.mark_dirty()
Moisten(cell) ==
    MarkDirty([cell EXCEPT !.moisture = Clamp(cell.moisture + GOLEM_MOISTURE, 0, 100)])

\* WaterGolem::find_next_target: the cells it may return
GolemTargets(center) ==
    {c \in SeqToSet(CellsWithinRange(center, WATER_GOLEM_RANGE)) :
        data[c].terrain \in {"Grassland", "Tree"}}

\* produce_from_water_golem, for the golem at loc whose second has passed and
\* which has mana to spend
ProduceFromWaterGolem(loc) ==
    /\ Running
    /\ loc \in golems
    /\ IF GolemTargets(loc) = {}
       THEN data' = data
       ELSE \E next_target \in GolemTargets(loc) :
               LET current == GetMut(next_target)
               IN  IF current.tag = "Some"
                      /\ data[current.val].terrain \in {"Grassland", "Tree"}
                   THEN data' = [data EXCEPT ![current.val] = Moisten(data[current.val])]
                   ELSE data' = data
    /\ Ran("produce_from_water_golem")
    /\ ret' = NoRet
    /\ UNCHANGED <<size_x, size_y, seed, meteors, golems, minotaurs, wind, ecs>>

\* the coordinates the accessors are called with
ProbeLocs ==
    (-ProbeMargin .. size_x + ProbeMargin - 1)
        \X (-ProbeMargin .. size_y + ProbeMargin - 1)

\* a caller asks is_valid_coords, get, get_mut and is_on_fire about loc
Probe(loc) ==
    /\ Running
    /\ MapExists
    /\ ret' = [loc |-> loc, valid |-> IsValidCoords(loc), get |-> Get(loc),
               get_mut |-> GetMut(loc), on_fire |-> IsOnFire(loc),
               panicked |-> Get(loc).tag = "Panic" \/ GetMut(loc).tag = "Panic",
               range |-> 0, cells |-> <<>>]
    /\ Ran("probe")
    /\ UNCHANGED <<size_x, size_y, seed, data, meteors, golems, minotaurs, wind, ecs>>

\* the coordinates a strike is aimed at: every cell and one tile off the grid
StrikeLocs == Cells \cup {<<-1, 0>>}
\* where the player has put a mana forge, and a water golem
ForgeLocs == {<<0, 0>>, <<1, 1>>}
GolemLocs == {<<0, 0>>, <<1, 0>>}

Next ==
    \/ \E s \in Seeds, d \in Dims : SpawnMap(s, d[1], d[2])
    \/ Update
    \/ \E loc \in StrikeLocs : MeteorStrike(loc)
    \/ \E target \in meteors : MeteorImpact(target)
    \/ \E coords \in GolemLocs : SpawnWaterGolem(coords)
    \/ \E loc \in golems : ProduceFromWaterGolem(loc)

Spec == Init /\ [][Next]_vars

\* the commands that set cells on fire
NextIgnite ==
    \/ \E s \in Seeds, d \in Dims : SpawnMap(s, d[1], d[2])
    \/ \E loc \in StrikeLocs : MeteorStrike(loc)
    \/ \E target \in meteors : MeteorImpact(target)
    \/ \E loc \in ForgeLocs : ForgeExplosion(loc)

SpecIgnite == Init /\ [][NextIgnite]_vars

\* the accessors, on maps with and without fire
NextAccess ==
    \/ \E s \in Seeds, d \in Dims : SpawnMap(s, d[1], d[2])
    \/ \E loc \in StrikeLocs : MeteorStrike(loc)
    \/ \E target \in meteors : MeteorImpact(target)
    \/ \E loc \in ProbeLocs : Probe(loc)

SpecAccess == Init /\ [][NextAccess]_vars

-----------------------------------------------------------------------------
(* The cellular automaton of wildfire/mod.rs: one entity per cell, every    *)
(* cell's next state computed by new_cell_state from the states the tick    *)
(* started with.                                                             *)

\* FastNoiseLite::new(): the seed of a generator that was given none
DEFAULT_NOISE_SEED == 1337

\* spawn_map on OnSpawnMap of wildfire/mod.rs: one entity per cell of Map::new
SpawnLifeMap(sx, sy) ==
    /\ Running
    /\ ~MapExists
    /\ size_x' = sx
    /\ size_y' = sy
    /\ seed' = DEFAULT_NOISE_SEED
    /\ data' = MapNew(DEFAULT_NOISE_SEED, sx, sy)
    /\ Ran("spawn_life_map")
    /\ ret' = NoRet
    /\ UNCHANGED <<meteors, golems, minotaurs, wind, ecs>>

\* handle_lightning_strike on OnLightningStrike(loc): Grassland(size) and
\* Tree(size) become Fire(size), Fire(size) becomes Fire(size + 2), every other
\* terrain stays; a loc with no tile is logged
LightningStrike(loc) ==
    /\ Running
    /\ MapExists
    /\ IF loc \in Cells
       THEN data' = [data EXCEPT ![loc] =
                CASE @.terrain \in {"Grassland", "Tree"} -> [@ EXCEPT !.terrain = "Fire"]
                  [] @.terrain = "Fire" -> [@ EXCEPT !.fuel_load = (@ + 2) % 256]
                  [] OTHER -> @]
       ELSE data' = data
    /\ Ran("lightning_strike")
    /\ ret' = NoRet
    /\ UNCHANGED <<size_x, size_y, seed, meteors, golems, minotaurs, wind, ecs>>

\* the cells whose states new_cell_state is handed as neighbor_cells
LifeNeighbours(c) ==
    {n \in Cells : \E idx \in 1 .. NEIGHBOURHOOD_SIZE :
        n = <<c[1] + NEIGHBOUR_COORDINATES[idx][1], c[2] + NEIGHBOUR_COORDINATES[idx][2]>>}

\* burn_chance of new_cell_state before the random factor, in units of 1e-4, for
\* a cell whose wind is the zero vector
LifeBurnChance(cell) ==
    LET base_probability == BurnRate(cell.terrain)
        moisture_factor == 100 - cell.moisture
    IN  Clamp(base_probability * (100 + moisture_factor), 0, 10000)

\* new_cell_state when its rolls succeed: what the cell becomes
NewCellStateRolled(d, c) ==
    CASE d[c].terrain = "Fire" ->
            [d[c] EXCEPT !.fuel_load = U8SaturatingSub(d[c].fuel_load, 1),
                         !.terrain = IF d[c].fuel_load = 0 THEN "Smoldering" ELSE "Fire"]
      [] d[c].terrain \in {"Grassland", "Tree"} ->
            IF /\ \E n \in LifeNeighbours(c) : d[n].terrain = "Fire"
               /\ LifeBurnChance(d[c]) > 0
            THEN [d[c] EXCEPT !.terrain = "Fire"]
            ELSE d[c]
      [] OTHER -> d[c]

\* one tick of the automaton: every cell either keeps its state or takes the
\* one new_cell_state computes from the states the tick started with
LifeTick ==
    /\ Running
    /\ MapExists
    /\ \E rolled \in SUBSET Cells :
          data' = [c \in Cells |->
                     IF c \in rolled THEN NewCellStateRolled(data, c) ELSE data[c]]
    /\ Ran("life_tick")
    /\ ret' = NoRet
    /\ UNCHANGED <<size_x, size_y, seed, meteors, golems, minotaurs, wind, ecs>>

NextLife ==
    \/ \E d \in Dims : SpawnLifeMap(d[1], d[2])
    \/ \E loc \in StrikeLocs : LightningStrike(loc)
    \/ LifeTick

SpecLife == Init /\ [][NextLife]_vars

-----------------------------------------------------------------------------
(* The simulation left to itself after forges have exploded: update_map     *)
(* runs on every timer tick for as long as the map exists.                   *)

\* every cell of the maps left to burn
BurnGrid == UNION {Grid(d[1], d[2]) : d \in BurnDims}
\* the forges that are destroyed before the simulation is left to itself
MaxBlasts == 1

\* a tick of the simulation left to itself: not counted, and pre is cleared
BurnTick ==
    /\ TickGrid
    /\ op' = "burn"
    /\ pre' = <<>>
    /\ UNCHANGED steps

\* a tick in which the BURN_DECAY_RATE roll of the Fire cell c succeeds
DecayRollSucceeds(c) ==
    /\ c \in Cells
    /\ data[c].terrain = "Fire"
    /\ BurnTick
    /\ data'[c] = Decay(data[c])

\* a forge is destroyed before the simulation is left to itself
BlastBeforeBurn(loc) ==
    /\ op # "burn"
    /\ steps <= MaxBlasts
    /\ ForgeExplosion(loc)

NextBurn ==
    \/ \E s \in BurnSeeds, d \in BurnDims : SpawnMap(s, d[1], d[2])
    \/ \E loc \in ForgeLocs : BlastBeforeBurn(loc)
    \/ BurnTick

\* gen_bool(0.3) does not fail forever
FairRolls == \A c \in BurnGrid : WF_vars(DecayRollSucceeds(c))

SpecBurn == Init /\ [][NextBurn]_vars /\ FairRolls

-----------------------------------------------------------------------------
(* GameMap::cells_within_range called on its own *)

\* the ranges of the callers reach this far
MaxRange == 3
\* the largest i32 whose square is an i32: 46340 * 46340 <= i32::MAX < 46341 * 46341
SQRT_I32_MAX == 46340

\* the (center, range) pairs cells_within_range is called with: every range
\* around the grid, and a center as far from the grid as the range reaches
RangeCalls ==
    (ProbeLocs \X (0 .. MaxRange))
        \cup {<<<<-SQRT_I32_MAX, -SQRT_I32_MAX>>, SQRT_I32_MAX>>}

\* a caller collects map.cells_within_range(center, range)
RangeProbe(center, range) ==
    /\ Running
    /\ MapExists
    /\ ret' = [NoRet EXCEPT !.loc = center, !.range = range,
                            !.cells = CellsWithinRange(center, range)]
    /\ Ran("cells_within_range")
    /\ UNCHANGED <<size_x, size_y, seed, data, meteors, golems, minotaurs, wind, ecs>>

NextRange ==
    \/ \E s \in Seeds, d \in Dims : SpawnMap(s, d[1], d[2])
    \/ \E call \in RangeCalls : RangeProbe(call[1], call[2])

SpecRange == Init /\ [][NextRange]_vars

-----------------------------------------------------------------------------
(* Rendering and the buildings that write to the grid: update_sprites,      *)
(* storm mages, lumber mills and minotaurs.                                  *)

\* update_sprites: if cell.dirty { cell.dirty = false; ... }, for every cell
UpdateSprites ==
    /\ Running
    /\ MapExists
    /\ data' = [c \in Cells |-> [data[c] EXCEPT !.dirty = FALSE]]
    /\ Ran("update_sprites")
    /\ ret' = NoRet
    /\ UNCHANGED <<size_x, size_y, seed, meteors, golems, minotaurs, wind, ecs>>

STORM_MAGE_RANGE == 10
STORM_MAGE_WIND == 2000
MageRotations == {"Left", "Up", "Right", "Down"}

\* MageRotation::as_vec
MageAsVec(rotation) ==
    CASE rotation = "Left" -> <<-1, 0>>
      [] rotation = "Up" -> <<0, 1>>
      [] rotation = "Right" -> <<1, 0>>
      [] rotation = "Down" -> <<0, -1>>

\* MageRotation::as_wind
MageAsWind(rotation, strength) ==
    <<MageAsVec(rotation)[1] * strength, MageAsVec(rotation)[2] * strength>>

\* StormMage::get_relevant_cells: MIN_D is 1 and MAX_D is 10
GetRelevantCells(rotation, range) ==
    CASE rotation = "Left" -> (-10 .. -1) \X (-range .. range)
      [] rotation = "Up" -> (-range .. range) \X (1 .. 10)
      [] rotation = "Right" -> (1 .. 10) \X (-range .. range)
      [] rotation = "Down" -> (-range .. range) \X (-10 .. 1)

\* StormMage::apply_to_map: map_cell.wind += self.wind on every relevant cell
\* that get_mut finds
ApplyToMap(d, mage_cell, rotation) ==
    LET mage_wind == MageAsWind(rotation, STORM_MAGE_WIND)
        relevant == {<<cell[1] + mage_cell[1], cell[2] + mage_cell[2]>> :
                        cell \in GetRelevantCells(rotation, STORM_MAGE_RANGE)}
    IN  [c \in Cells |->
            IF c \in relevant /\ GetMut(c).tag = "Some"
            THEN [d[c] EXCEPT !.wind = <<@[1] + mage_wind[1], @[2] + mage_wind[2]>>]
            ELSE d[c]]

\* the tiles a building placed at coords stands on
Footprint(coords) ==
    {<<coords[1] + BUILDING_FOOTPRINT_OFFSETS[i][1],
       coords[2] + BUILDING_FOOTPRINT_OFFSETS[i][2]>> : i \in 1 .. 4}

\* spawn_storm_mage when it spawns the mage (mana, parent forge and
\* coordinates accepted): the wind is applied, then the footprint becomes
\* Building
SpawnStormMage(coords, rotation) ==
    /\ Running
    /\ MapExists
    /\ IsValidCoords(coords)
    /\ LET blown == ApplyToMap(data, coords, rotation)
       IN  data' = [c \in Cells |->
                     IF c \in Footprint(coords) /\ GetMut(c).tag = "Some"
                     THEN [blown[c] EXCEPT !.terrain = "Building"] ELSE blown[c]]
    /\ Ran("spawn_storm_mage")
    /\ ret' = NoRet
    /\ UNCHANGED <<size_x, size_y, seed, meteors, golems, minotaurs, wind, ecs>>

LUMBER_MILL_RANGE == 5

\* LumberMill::find_next_target: the cells it may return
MillTargets(center, target_terrain) ==
    {c \in SeqToSet(CellsWithinRange(center, LUMBER_MILL_RANGE)) :
        data[c].terrain = target_terrain}

\* produce_from_lumber_mill, for the mill at loc whose second has passed (a
\* mill is placed on valid coordinates only): it plants a tree on Grassland
\* or fells a Tree
ProduceFromLumberMill(loc) ==
    /\ Running
    /\ MapExists
    /\ IsValidCoords(loc)
    /\ \E terrains \in {<<"Grassland", "Tree">>, <<"Tree", "Grassland">>} :
          LET target_terrain == terrains[1]
              new_terrain == terrains[2]
          IN  IF MillTargets(loc, target_terrain) = {}
              THEN data' = data
              ELSE \E coord \in MillTargets(loc, target_terrain) :
                      LET current == GetMut(coord)
                      IN  IF current.tag = "Some"
                             /\ data[current.val].terrain \in {"Tree", "Grassland"}
                          THEN data' = [data EXCEPT ![current.val] =
                                          MarkDirty([@ EXCEPT !.terrain = new_terrain])]
                          ELSE data' = data
    /\ Ran("produce_from_lumber_mill")
    /\ ret' = NoRet
    /\ UNCHANGED <<size_x, size_y, seed, meteors, golems, minotaurs, wind, ecs>>

\* Minotaur entities alive at once
MaxMinotaurs == 1
MINOTAUR_RANGE == 5

\* spawn_minotaur when it spawns the minotaur: Minotaur::default() stands at
\* IVec2::ZERO, and the map is not written
SpawnMinotaur(coords) ==
    /\ Running
    /\ MapExists
    /\ Cardinality(minotaurs) < MaxMinotaurs
    /\ minotaurs' = minotaurs \cup {[loc |-> coords, location |-> Vec2Zero]}
    /\ Ran("spawn_minotaur")
    /\ ret' = NoRet
    /\ UNCHANGED <<size_x, size_y, seed, data, meteors, golems, wind, ecs>>

\* the coordinates Minotaur::move_to_grass indexes map.data with: the box
\* around center clipped at 0 on the low side only, within range of center
MinotaurScanned(center, range) ==
    {v \in (Max(center[1] - range, 0) .. Max(center[1] + range, 0))
            \X (Max(center[2] - range, 0) .. Max(center[2] + range, 0)) :
        ~((v[1] - center[1]) * (v[1] - center[1])
            + (v[2] - center[2]) * (v[2] - center[2]) > range * range)}

\* Minotaur::move_to_grass on the grid d: the locations it can leave the
\* minotaur at, or the panic of map.data[coord.y][coord.x] out of range
MoveToGrass(d, center) ==
    LET scanned == MinotaurScanned(center, MINOTAUR_RANGE)
        coords == {v \in scanned \cap Cells : d[v].terrain \in {"Grassland", "Tree"}}
    IN  IF \E v \in scanned : AsUsize(v[1]) >= size_x \/ AsUsize(v[2]) >= size_y
        THEN {Panic}
        ELSE IF coords = {} THEN {Some(Vec2Zero)}
        ELSE {Some(v) : v \in coords}

\* produce_from_minotaur, for the minotaur m whose half second has passed
ProduceFromMinotaur(m) ==
    /\ Running
    /\ m \in minotaurs
    /\ LET current == GetMut(m.location)
           terrain == IF current.tag = "Some" THEN data[current.val].terrain ELSE "None"
           eaten == CASE terrain = "Grassland" ->
                            [data EXCEPT ![current.val] = MarkDirty([@ EXCEPT !.terrain = "Dirt"])]
                      [] terrain = "Tree" ->
                            [data EXCEPT ![current.val] =
                                MarkDirty([@ EXCEPT !.terrain = "Grassland"])]
                      [] OTHER -> data
       IN  /\ data' = eaten
           /\ IF terrain = "Tree"
              THEN /\ minotaurs' = minotaurs
                   /\ Ran("produce_from_minotaur")
              ELSE \E moved \in MoveToGrass(eaten, m.loc) :
                      IF moved.tag = "Panic"
                      THEN /\ minotaurs' = minotaurs
                           /\ Ran("panic")
                      ELSE /\ minotaurs' = (minotaurs \ {m})
                                              \cup {[loc |-> m.loc, location |-> moved.val]}
                           /\ Ran("produce_from_minotaur")
    /\ ret' = NoRet
    /\ UNCHANGED <<size_x, size_y, seed, meteors, golems, wind, ecs>>

\* the direction of each neighbour, in the order of NEIGHBOUR_COORDINATES
NEIGHBOUR_VECTOR ==
    <<<<-1, 0>>, <<-1, 1>>, <<0, 1>>, <<1, 1>>, <<1, 0>>, <<1, -1>>, <<0, -1>>, <<-1, -1>>>>

\* Vec2::dot and Vec2::perp_dot
Dot(a, b) == a[1] * b[1] + a[2] * b[2]
PerpDot(a, b) == a[1] * b[2] - a[2] * b[1]

\* a.angle_to(b) is 0, so that its cosine is 1
AngleIsZero(a, b) == PerpDot(a, b) = 0 /\ Dot(a, b) >= 0

\* the least whole wind_strength at which (0.045 * wind_strength).exp() is
\* f32 infinity: ln(f32::MAX) / 0.045 is 1971.6
EXP_OVERFLOW == 1972

\* an f32 that is not a number
NaN == [tag |-> "NaN", val |-> <<>>]

\* wind_factor with wind_strength taken from the summed wind
WindFactorOfSum(local, global_wind, idx) ==
    LET blows == <<local[1] + global_wind[1], local[2] + global_wind[2]>>
    IN  CASE blows = Vec2Zero -> "zero"
          [] blows # Vec2Zero /\ AngleIsZero(blows, NEIGHBOUR_VECTOR[idx]) -> "zero"
          [] OTHER -> "neg_inf"

\* wind_factor of a cell whose wind is local, for the neighbour idx.  A cell's
\* wind is the sum of the winds of storm mages, 2000 along an axis each: it is
\* the zero vector or at least EXP_OVERFLOW long.
\*   zero:    0 * 0.131 * (cos - 1) * exp(0) is 0
\*   nan:     (strength * 0.131 * 0) * infinity
\*   neg_inf: (strength * 0.131 * (cos - 1)) * infinity with cos < 1
WindFactor(local, global_wind, idx) ==
    LET blows == <<local[1] + global_wind[1], local[2] + global_wind[2]>>
    IN  CASE local = Vec2Zero -> "zero"
          [] /\ Dot(local, local) >= EXP_OVERFLOW * EXP_OVERFLOW
             /\ AngleIsZero(blows, NEIGHBOUR_VECTOR[idx]) -> "nan"
          [] /\ Dot(local, local) >= EXP_OVERFLOW * EXP_OVERFLOW
             /\ ~AngleIsZero(blows, NEIGHBOUR_VECTOR[idx]) -> "neg_inf"

\* burn_chance of update for the Fire neighbour idx, in units of 1e-4:
\* (base_probability * moisture_factor * (1. + wind_factor)).clamp(0.0, 1.0)
BurnChanceFrom(cell, global_wind, idx) ==
    LET wind_factor == WindFactor(cell.wind, global_wind, idx)
    IN  CASE wind_factor = "zero" -> Some(BurnChance(cell))
          [] wind_factor = "nan" -> NaN
          [] wind_factor = "neg_inf" -> IF BurnChance(cell) = 0 THEN NaN ELSE Some(0)

\* WindDirection::as_vec at strength MIN_WIND_SPEED and angles 0, 90, 180 and
\* 270
GlobalWinds == {<<10, 0>>, <<0, 10>>, <<-10, 0>>, <<0, -10>>}

\* the Grassland | Tree arm under the winds, from neighbour idx on: every
\* outcome the rolls can leave.  gen_bool panics on a burn_chance that is not
\* a number; a successful roll ends the loop (break).
RECURSIVE ScanUnderWind(_, _, _, _)
ScanUnderWind(d, c, idx, global_wind) ==
    IF idx > NEIGHBOURHOOD_SIZE THEN {[grid |-> d, panicked |-> FALSE]}
    ELSE LET n == Neighbour(c[1], c[2], NEIGHBOUR_COORDINATES[idx])
         IN  IF n.tag = "None" THEN ScanUnderWind(d, c, idx + 1, global_wind)
             ELSE IF d[n.val].terrain = "Fire"
                  THEN LET d1 == [d EXCEPT ![c] = Dry(d[c])]
                           burn_chance == BurnChanceFrom(d1[c], global_wind, idx)
                       IN  (CASE burn_chance = NaN -> {[grid |-> d1, panicked |-> TRUE]}
                              [] burn_chance # NaN /\ burn_chance.val > 0 ->
                                    {[grid |-> [d1 EXCEPT ![c] = Ignite(d1[c])],
                                      panicked |-> FALSE]}
                              [] OTHER -> {})
                           \cup ScanUnderWind(d1, c, idx + 1, global_wind)
                  ELSE ScanUnderWind(d, c, idx + 1, global_wind)

\* one iteration of the loops of update(global_wind), at cell c
UpdateCellUnderWind(d, c, global_wind) ==
    CASE d[c].terrain = "Fire" ->
            {[grid |-> d, panicked |-> FALSE],
             [grid |-> [d EXCEPT ![c] = Decay(d[c])], panicked |-> FALSE]}
      [] d[c].terrain \in {"Grassland", "Tree"} -> ScanUnderWind(d, c, 1, global_wind)
      [] OTHER -> {[grid |-> d, panicked |-> FALSE]}

\* what update(global_wind) can leave, from the i-th cell on: a grid, or the
\* grid at the time of the panic
RECURSIVE UpdateUnderWind(_, _, _)
UpdateUnderWind(d, i, global_wind) ==
    IF i >= size_x * size_y THEN {[grid |-> d, panicked |-> FALSE]}
    ELSE UNION {IF s.panicked THEN {s} ELSE UpdateUnderWind(s.grid, i + 1, global_wind) :
                  s \in UpdateCellUnderWind(d, CellAt(i), global_wind)}

\* where the player has put a storm mage, a lumber mill and a minotaur
MageLocs == {<<0, 0>>}
MillLocs == {<<1, 1>>}
MinotaurLocs == {<<0, 0>>, <<1, 1>>}

\* the buildings that change terrain, and the renderer
NextBuild ==
    \/ \E s \in Seeds, d \in Dims : SpawnMap(s, d[1], d[2])
    \/ UpdateSprites
    \/ \E coords \in GolemLocs : SpawnWaterGolem(coords)
    \/ \E loc \in MillLocs : ProduceFromLumberMill(loc)
    \/ \E coords \in MinotaurLocs : SpawnMinotaur(coords)
    \/ \E m \in minotaurs : ProduceFromMinotaur(m)

SpecBuild == Init /\ [][NextBuild]_vars

\* storm mages on a map where a forge has exploded
NextStorm ==
    \/ \E s \in Seeds, d \in Dims : SpawnMap(s, d[1], d[2])
    \/ \E loc \in ForgeLocs : BlastBeforeBurn(loc)
    \/ \E coords \in MageLocs, rotation \in MageRotations : SpawnStormMage(coords, rotation)

SpecStorm == Init /\ [][NextStorm]_vars

-----------------------------------------------------------------------------
(* WindDirection and wandery_wind.  An angle is a whole number of half        *)
(* degrees and a strength a whole number of halves: 360.0 is 720 and          *)
(* MIN_WIND_SPEED 10.0 is 20.                                                  *)

FULL_TURN == 720
\* the spread of the first target around the first angle: 45.0
DEFAULT_TARGET_SPREAD == 90
\* std::f32::consts::FRAC_PI_2.to_degrees(): 90.0
DEFAULT_VARIANCE == 180
WIND_STRENGTH_VARIANCE == 2
MIN_WIND_SPEED == 20
MAX_WIND_SPEED == 200
\* time.delta_secs() * WIND_CHANGE_SPEED for a frame of 0.1 s: 0.5
WIND_DELTA == 1
\* the angle is set to the target when less than 1.0 from it
SNAP_DISTANCE == 2

\* a % b of f32: the remainder has the sign of a
RustRem(a, b) == IF a >= 0 THEN a % b ELSE -((-a) % b)

Abs(a) == IF a < 0 THEN -a ELSE a

\* the angles drawn in the model: the multiples of 45.0
AngleGrid == {k * 90 : k \in -24 .. 24}

\* rng.gen_range(lo..hi), on the grid
GenRange(lo, hi) == {t \in AngleGrid : lo <= t /\ t < hi}

\* WindDirection::default() with the two draws it makes
WindDefault(angle, spread) ==
    [angle |-> angle,
     target |-> RustRem(spread, FULL_TURN),
     strength |-> MIN_WIND_SPEED,
     variance |-> DEFAULT_VARIANCE]

\* app.init_resource::<WindDirection>()
InitWind ==
    /\ op # "panic"
    /\ wind = None
    /\ \E angle \in GenRange(0, FULL_TURN) :
          \E spread \in GenRange(angle - DEFAULT_TARGET_SPREAD, angle + DEFAULT_TARGET_SPREAD) :
             wind' = Some(WindDefault(angle, spread))
    /\ op' = "wind_default"
    /\ pre' = <<>>
    /\ ret' = NoRet
    /\ UNCHANGED <<size_x, size_y, seed, data, meteors, golems, minotaurs, steps, ecs>>

DirectionSignFlipped(w) ==
    LET raw_delta == w.target - w.angle
        positive_delta == IF raw_delta < 0 THEN raw_delta + FULL_TURN ELSE raw_delta
        negative_delta == IF raw_delta > 0 THEN FULL_TURN + raw_delta ELSE Abs(raw_delta)
    IN  IF positive_delta > negative_delta THEN 1 ELSE -1
\* direction_sign of wandery_wind
DirectionSign(w) ==
    LET raw_delta == w.target - w.angle
        positive_delta == IF raw_delta < 0 THEN raw_delta + FULL_TURN ELSE raw_delta
        negative_delta == IF raw_delta > 0 THEN FULL_TURN + raw_delta ELSE Abs(raw_delta)
    IN  IF positive_delta > negative_delta THEN -1 ELSE 1

\* wind.angle += wind_delta * direction_sign
Rotated(w) == w.angle + WIND_DELTA * DirectionSign(w)

\* ((wind.angle % 360.0) - wind.target).abs() < 1.0, after the rotation
Snaps(w) == Abs(RustRem(Rotated(w), FULL_TURN) - w.target) < SNAP_DISTANCE

DriftedUnclamped(w, drift) == w.strength + drift
\* the strength after the tick drew drift from -WIND_STRENGTH_VARIANCE..WIND_STRENGTH_VARIANCE
Drifted(w, drift) == Clamp(w.strength + drift, MIN_WIND_SPEED, MAX_WIND_SPEED)

\* wandery_wind on the WindDirection w: what it can leave
WanderyWind(w) ==
    IF Snaps(w)
    THEN {[w EXCEPT !.angle = w.target,
                    !.target = RustRem(spread, FULL_TURN),
                    !.strength = Drifted(w, drift)] :
            spread \in GenRange(w.target - w.variance, w.target + w.variance),
            drift \in -WIND_STRENGTH_VARIANCE .. WIND_STRENGTH_VARIANCE - 1}
    ELSE {[w EXCEPT !.angle = Rotated(w), !.strength = Drifted(w, drift)] :
            drift \in -WIND_STRENGTH_VARIANCE .. WIND_STRENGTH_VARIANCE - 1}

\* a frame in which wandery_wind runs (the game is not paused, in endless mode)
WindFrame ==
    /\ op # "panic"
    /\ wind.tag = "Some"
    /\ \E w \in WanderyWind(wind.val) : wind' = Some(w)
    /\ op' = "wandery_wind"
    /\ pre' = <<>>
    /\ ret' = NoRet
    /\ UNCHANGED <<size_x, size_y, seed, data, meteors, golems, minotaurs, ecs>>

\* frames in one behaviour
MaxWindTicks == 12

\* a frame that is counted
WindTick ==
    /\ steps < MaxWindTicks
    /\ WindFrame
    /\ steps' = steps + 1

\* WindDirection::override
Override(angle, strength) ==
    /\ op # "panic"
    /\ wind.tag = "Some"
    /\ wind' = Some([wind.val EXCEPT !.angle = angle, !.strength = strength])
    /\ op' = "override"
    /\ pre' = <<>>
    /\ ret' = NoRet
    /\ UNCHANGED <<size_x, size_y, seed, data, meteors, golems, minotaurs, steps, ecs>>

\* the (angle, strength) pairs override is called with: (32.0, 15.0) as the
\* story levels do, and a strength above MAX_WIND_SPEED
OverrideCalls == {<<64, 30>>, <<0, 250>>}

NextWind ==
    \/ InitWind
    \/ WindTick
    \/ \E call \in OverrideCalls : Override(call[1], call[2])

SpecWind == Init /\ [][NextWind]_vars

\* a WindDirection with angle 0.0, target 90.0 and variance 45.0
SCENARIO_TARGET == 180
WindScenario ==
    /\ op # "panic"
    /\ wind = None
    /\ wind' = Some([angle |-> 0, target |-> SCENARIO_TARGET,
                     strength |-> MIN_WIND_SPEED, variance |-> 90])
    /\ op' = "wind_scenario"
    /\ pre' = <<>>
    /\ ret' = NoRet
    /\ UNCHANGED <<size_x, size_y, seed, data, meteors, golems, minotaurs, steps, ecs>>

\* a frame of the scenario, which is over once the angle is the target it
\* started with
ScenarioTick ==
    /\ wind.tag = "Some"
    /\ wind.val.angle # SCENARIO_TARGET
    /\ WindFrame
    /\ UNCHANGED steps

NextConverge ==
    \/ WindScenario
    \/ ScenarioTick

\* wandery_wind runs on every frame
SpecConverge == Init /\ [][NextConverge]_vars /\ WF_vars(ScenarioTick)

-----------------------------------------------------------------------------
(* One sweep of update over a long row: the map is wide enough for fire to   *)
(* cross more than one cell in a tick.                                        *)

\* (size_x, size_y) of the maps the sweep is followed on
SweepDims == {<<4, 2>>}

\* the seed of those maps
SweepSeeds == {0}

\* where the meteors of the sweep are aimed
SweepStrikes == {<<1, 1>>, <<3, 1>>}

\* the tick that follows an impact
SweepTick ==
    /\ op = "meteor_impact"
    /\ Update

NextSweep ==
    \/ \E s \in SweepSeeds, d \in SweepDims : SpawnMap(s, d[1], d[2])
    \/ \E loc \in SweepStrikes : MeteorStrike(loc)
    \/ \E target \in meteors : MeteorImpact(target)
    \/ SweepTick

SpecSweep == Init /\ [][NextSweep]_vars

-----------------------------------------------------------------------------
(* Story mode: the scripted meteor bolts of a level and the victory check.   *)
(* A time is a whole number of frame units.                                   *)

\* get_level_data(lvl), brought down to the maps of the model: the scheduled
\* times keep their order and their tie, and the targets lie on the grid
LevelData(lvl) ==
    IF lvl = 1
    THEN [level_number |-> 1,
          bolts |-> <<<<1, <<1, 1>>>>, <<3, <<0, 1>>>>, <<4, <<1, 0>>>>, <<4, <<0, 0>>>>>>,
          elapsed_time |-> 0]
    ELSE [level_number |-> 2,
          bolts |-> <<<<2, <<1, 0>>>>, <<3, <<1, 1>>>>>>,
          elapsed_time |-> 0]

\* the levels get_level_data knows
StoryLevels == {1, 2}

\* time.delta_secs() of a frame
FrameDeltas == {1, 2}

RECURSIVE SeqMax(_)
SeqMax(s) == IF s = <<>> THEN 0 ELSE Max(Head(s), SeqMax(Tail(s)))

\* the latest time a bolt of the level is scheduled for.  Past it the value of
\* elapsed_time decides nothing any more, and it is held there.
LastBoltTime(lvl) ==
    SeqMax([i \in 1 .. Len(LevelData(lvl).bolts) |-> LevelData(lvl).bolts[i][1]])

\* spawn_level outside endless mode: commands.insert_resource(level_data)
InsertStoryLevel(lvl) ==
    /\ op # "panic"
    /\ MapExists
    /\ level = None
    /\ level' = Some(LevelData(lvl))
    /\ op' = "insert_story_level"
    /\ pre' = <<>>
    /\ ret' = NoRet
    /\ UNCHANGED <<size_x, size_y, seed, data, meteors, golems, minotaurs, wind, steps,
                   resources, building_mode, tracker, buildings, launched, victory>>

\* the bolt at the front of the queue is launched whatever the time
BoltAlwaysDue(lv) == TRUE

\* if level.elapsed_time < *bolt_time { return; }
BoltDue(lv) == ~(lv.elapsed_time < Head(lv.bolts)[1])

\* handle_meteor_strike, the observer of OnMeteorStrike(loc): the Meteor
\* entities in flight after it has run
MeteorsAfterStrike(loc) ==
    LET cell == Get(loc)
    IN  IF cell.tag = "Some" /\ data[cell.val].terrain \in {"Grassland", "Tree"}
        THEN meteors \cup {loc}
        ELSE meteors

\* spawn_story_meteor_bolts on the level lv: the level it leaves, the bolt it
\* has triggered (if any) and the meteors in flight afterwards
SpawnStoryMeteorBolts(lv) ==
    IF lv.bolts # <<>> /\ BoltDue(lv)
    THEN [level |-> [lv EXCEPT !.bolts = Tail(lv.bolts)],
          bolt |-> <<[time |-> Head(lv.bolts)[1], loc |-> Head(lv.bolts)[2],
                      at |-> lv.elapsed_time]>>,
          meteors |-> MeteorsAfterStrike(Head(lv.bolts)[2])]
    ELSE [level |-> lv, bolt |-> <<>>, meteors |-> meteors]

\* update_story_elapsed_time
UpdateStoryElapsedTime(lv, delta) ==
    [lv EXCEPT !.elapsed_time =
        Min(lv.elapsed_time + delta, LastBoltTime(lv.level_number) + 1)]

\* a frame of Update in story mode while unpaused: spawn_story_meteor_bolts
\* and update_story_elapsed_time, which the schedule may run in either order
StoryFrame(delta) ==
    /\ op # "panic"
    /\ level.tag = "Some"
    /\ \E bolts_first \in BOOLEAN :
          LET before == IF bolts_first THEN level.val
                        ELSE UpdateStoryElapsedTime(level.val, delta)
              spawned == SpawnStoryMeteorBolts(before)
              after == IF bolts_first
                       THEN UpdateStoryElapsedTime(spawned.level, delta)
                       ELSE spawned.level
          IN  /\ level' = Some(after)
              /\ launched' = launched \o spawned.bolt
              /\ meteors' = spawned.meteors
    /\ op' = "story_frame"
    /\ pre' = <<>>
    /\ ret' = NoRet
    /\ UNCHANGED <<size_x, size_y, seed, data, golems, minotaurs, wind, steps,
                   resources, building_mode, tracker, buildings, victory>>

NextStory ==
    \/ \E s \in Seeds, d \in Dims : SpawnMap(s, d[1], d[2])
    \/ \E lvl \in StoryLevels : InsertStoryLevel(lvl)
    \/ \E delta \in FrameDeltas : StoryFrame(delta)

\* frames keep coming while the game is not paused
SpecStory == Init /\ [][NextStory]_vars /\ WF_vars(\E delta \in FrameDeltas : StoryFrame(delta))

\* GameMap::any_on_fire: some cell of the grid is Fire
AnyOnFire == \E c \in Cells : data[c].terrain = "Fire"

\* track_victory_conditions, on its 500 ms timer while a StoryModeLevel exists
TrackVictoryConditions ==
    /\ op # "panic"
    /\ MapExists
    /\ level.tag = "Some"
    /\ victory' = (level.val.bolts = <<>> /\ ~AnyOnFire)
    /\ op' = "track_victory_conditions"
    /\ pre' = <<>>
    /\ ret' = NoRet
    /\ UNCHANGED <<size_x, size_y, seed, data, meteors, golems, minotaurs, wind, steps,
                   resources, building_mode, tracker, buildings, level, launched>>

\* a story level played to its end: the bolts, their meteors, the fire and
\* the victory check
NextVictory ==
    \/ \E s \in BurnSeeds, d \in BurnDims : SpawnMap(s, d[1], d[2])
    \/ \E lvl \in StoryLevels : InsertStoryLevel(lvl)
    \/ \E delta \in FrameDeltas : StoryFrame(delta)
    \/ \E target \in meteors : MeteorImpact(target)
    \/ Update
    \/ TrackVictoryConditions

SpecVictory == Init /\ [][NextVictory]_vars

-----------------------------------------------------------------------------
(* Buildings on fire: burn_buildings, destroy_marked_buildings and the       *)
(* observers of their despawn.  A building is [id, type, loc, from, parent,  *)
(* rotation, boom]: from is ManaEntityLink.from_entity (0 when the entity    *)
(* carries no link), parent the entity it is a child of (0 when none),       *)
(* rotation is StormMage.rotation ("None" when it is not a storm mage) and   *)
(* boom is BuildingMarkedForDestruction.time_until_boom, in seconds (None    *)
(* while the entity is not marked).                                          *)

\* MageRotation::default()
DefaultRotation == "Right"

Building(id, type, loc, from) ==
    [id |-> id, type |-> type, loc |-> loc, from |-> from, parent |-> 0,
     rotation |-> IF type = "StormMage" THEN DefaultRotation ELSE "None",
     boom |-> None]

\* StormMage::apply_to_map for every mage of the set
RECURSIVE ApplyAllToMap(_, _)
ApplyAllToMap(d, mages) ==
    IF mages = {} THEN d
    ELSE LET mage == CHOOSE b \in mages : TRUE
         IN  ApplyAllToMap(ApplyToMap(d, mage.loc, mage.rotation), mages \ {mage})

\* remove_storm_mage: cell.wind -= mage.wind on the cells the mage blew on
RemoveStormMage(d, mage) ==
    LET mage_wind == MageAsWind(mage.rotation, STORM_MAGE_WIND)
        blown == {<<cell[1] + mage.loc[1], cell[2] + mage.loc[2]>> :
                     cell \in GetRelevantCells(mage.rotation, STORM_MAGE_RANGE)}
    IN  [c \in Cells |->
            IF c \in blown /\ GetMut(c).tag = "Some"
            THEN [d[c] EXCEPT !.wind = <<@[1] - mage_wind[1], @[2] - mage_wind[2]>>]
            ELSE d[c]]

\* remove_storm_mage for every mage of the set
RECURSIVE RemoveAllFromMap(_, _)
RemoveAllFromMap(d, mages) ==
    IF mages = {} THEN d
    ELSE LET mage == CHOOSE b \in mages : TRUE
         IN  RemoveAllFromMap(RemoveStormMage(d, mage), mages \ {mage})

\* the buildings of the type among bs
OfType(bs, type) == {b \in bs : b.type = type}

\* the buildings burn_buildings is run on: a forge with a golem and a mage, a
\* lumber mill linked to itself, a city hall; a chain of links; a cycle
LinkGraphs ==
    { {Building(1, "ManaForge", <<0, 0>>, 0), Building(2, "WaterGolem", <<0, 0>>, 1),
       Building(3, "StormMage", <<3, 0>>, 1), Building(4, "LumberMill", <<3, 0>>, 4)},
      {Building(1, "CityHall", <<0, 0>>, 0), Building(2, "LumberMill", <<0, 0>>, 2),
       Building(3, "LumberMill", <<3, 0>>, 3)},
      {Building(1, "WaterGolem", <<0, 0>>, 9), Building(2, "StormMage", <<3, 0>>, 1),
       Building(3, "WaterGolem", <<3, 0>>, 2), Building(4, "WaterGolem", <<3, 0>>, 3)},
      {Building(1, "WaterGolem", <<0, 0>>, 3), Building(2, "StormMage", <<3, 0>>, 1),
       Building(3, "WaterGolem", <<3, 0>>, 2)} }

\* the buildings stand on the map: the storm mages blow, and water golems and
\* storm mages have turned their footprint into Building.  Counted as a step.
SpawnBuildings(graph) ==
    /\ Running
    /\ MapExists
    /\ buildings = {}
    /\ buildings' = graph
    /\ LET blown == ApplyAllToMap(data, OfType(graph, "StormMage"))
       IN  data' = [c \in Cells |->
                     IF \E b \in graph : b.type \in {"WaterGolem", "StormMage"}
                                         /\ c \in Footprint(b.loc)
                     THEN [blown[c] EXCEPT !.terrain = "Building"] ELSE blown[c]]
    /\ golems' = golems \cup {b.loc : b \in OfType(graph, "WaterGolem")}
    /\ op' = "spawn_buildings"
    /\ pre' = <<>>
    /\ steps' = steps + 1
    /\ ret' = NoRet
    /\ UNCHANGED <<size_x, size_y, seed, meteors, minotaurs, wind,
                   resources, building_mode, tracker, level, launched, victory>>

\* GameMap::check_on_fire: some of the cells is Fire
CheckOnFire(locs) == \E loc \in locs : IsOnFire(loc)

\* the orders a query can yield the entities of S in
RECURSIVE Orders(_)
Orders(S) ==
    IF S = {} THEN {<<>>}
    ELSE UNION {{<<e>> \o o : o \in Orders(S \ {e})} : e \in S}

Entity(bs, id) == CHOOSE b \in bs : b.id = id

\* the entities of the links query, in the order it yields them
LinksQuery(bs, order) ==
    SelectSeq(order, LAMBDA id : Entity(bs, id).from # 0)

\* for (target_entity, link, _) in &links, from the i-th on: boom_times after
\* the pass (its keys are entities_to_boom)
RECURSIVE LinkPass(_, _, _, _, _)
LinkPass(bs, links, i, times, boom_time) ==
    IF i > Len(links) THEN times
    ELSE LET target_entity == links[i]
             from_entity == Entity(bs, target_entity).from
         IN  IF from_entity \in DOMAIN times /\ target_entity \notin DOMAIN times
             THEN LinkPass(bs, links, i + 1, (target_entity :> boom_time) @@ times,
                           boom_time)
             ELSE LinkPass(bs, links, i + 1, times, boom_time)

\* the loop cut off after its first pass over the links
BoomTimesOnePass(bs, links, times, boom_time) == LinkPass(bs, links, 1, times, boom_time)

\* while made_changes { ...; boom_time += 1.0 }: boom_times when the loop ends
RECURSIVE BoomTimes(_, _, _, _)
BoomTimes(bs, links, times, boom_time) ==
    LET after == LinkPass(bs, links, 1, times, boom_time)
    IN  IF DOMAIN after = DOMAIN times THEN times
        ELSE BoomTimes(bs, links, after, boom_time + 1)

\* the building has fire on its footprint
OnFire(b) == CheckOnFire(Footprint(b.loc))

\* the loop of burn_buildings over the buildings query from its i-th entity
\* on.  The query and the links are those of the world the system started
\* in; the inserts and the despawn are commands, applied afterwards, a later
\* insert replacing an earlier one.  A burning City Hall ends the system.
RECURSIVE BurnFrom(_, _, _, _)
BurnFrom(bs, order, i, acc) ==
    IF i > Len(order) THEN acc
    ELSE LET b == Entity(bs, order[i])
         IN  IF b.boom # None \/ ~OnFire(b) THEN BurnFrom(bs, order, i + 1, acc)
             ELSE IF b.type = "CityHall"
                  THEN [acc EXCEPT !.despawned = @ \cup {b.id}]
                  ELSE LET boom_times ==
                               BoomTimes(bs, LinksQuery(bs, order), (b.id :> 1), 2)
                           linked == {e \in DOMAIN boom_times :
                                        \E l \in bs : l.id = e /\ l.from # 0}
                           inserted == [e \in linked |-> boom_times[e]]
                       IN  BurnFrom(bs, order, i + 1,
                                    [acc EXCEPT !.marks = inserted @@ @])

\* burn_buildings with its commands applied: the buildings it leaves
BurnBuildingsIn(bs, order) ==
    LET acc == BurnFrom(bs, order, 1, [marks |-> [e \in {} |-> 0], despawned |-> {}])
    IN  {IF b.id \in DOMAIN acc.marks THEN [b EXCEPT !.boom = Some(acc.marks[b.id])]
         ELSE b : b \in {x \in bs : x.id \notin acc.despawned}}

\* burn_buildings, on its 100 ms timer.  (The despawn of a City Hall is
\* observed by handle_despawned_buildings, which only sets the hint.)
BurnBuildings ==
    /\ op # "panic"
    /\ MapExists
    /\ buildings # {}
    /\ \E order \in Orders({b.id : b \in buildings}) :
          buildings' = BurnBuildingsIn(buildings, order)
    /\ op' = "burn_buildings"
    /\ pre' = <<>>
    /\ ret' = NoRet
    /\ UNCHANGED <<size_x, size_y, seed, data, meteors, golems, minotaurs, wind, steps,
                   resources, building_mode, tracker, level, launched, victory>>

\* handle_despawned_buildings: what the despawn of a building of this type
\* adds to PlayerResources.mana_drain
DrainOnDespawn(type) ==
    CASE type = "ManaForge" -> -3
      [] type = "StormMage" -> -2
      [] type \in {"Minotaur", "WaterGolem"} -> 1
      [] OTHER -> 0

RECURSIVE DrainOfAll(_)
DrainOfAll(bs) ==
    IF bs = {} THEN 0
    ELSE LET b == CHOOSE x \in bs : TRUE
         IN  DrainOnDespawn(b.type) + DrainOfAll(bs \ {b})

\* time.delta_secs() of a frame of destroy_marked_buildings, in seconds
BoomDeltas == {1}

\* destroy_marked_buildings: every marked building counts down, and is
\* despawned unless its time is still above 0; handle_despawned_buildings and
\* remove_storm_mage observe each despawn.  (No ManaForge is ever marked: it
\* carries no link.)
DestroyMarkedBuildings(delta) ==
    /\ op # "panic"
    /\ \E b \in buildings : b.boom # None
    /\ LET counted == {IF b.boom = None THEN b
                       ELSE [b EXCEPT !.boom = Some(b.boom.val - delta)] : b \in buildings}
           gone == {b \in counted : b.boom # None /\ ~(b.boom.val > 0)}
       IN  /\ buildings' = counted \ gone
           /\ resources' = [resources EXCEPT !.mana_drain = @ + DrainOfAll(gone)]
           /\ data' = RemoveAllFromMap(data, OfType(gone, "StormMage"))
           /\ golems' = golems \ {b.loc : b \in OfType(gone, "WaterGolem")}
    /\ op' = "destroy_marked_buildings"
    /\ pre' = <<delta>>
    /\ ret' = NoRet
    /\ UNCHANGED <<size_x, size_y, seed, meteors, minotaurs, wind, steps,
                   building_mode, tracker, level, launched, victory>>

\* the map the buildings stand on, and where the meteor that sets them on
\* fire is aimed
DestroyDims == {<<4, 1>>}
DestroyStrikes == {<<2, 0>>}

NextDestroy ==
    \/ \E s \in SweepSeeds, d \in DestroyDims : SpawnMap(s, d[1], d[2])
    \/ \E graph \in LinkGraphs : SpawnBuildings(graph)
    \/ \E loc \in DestroyStrikes : MeteorStrike(loc)
    \/ \E target \in meteors : MeteorImpact(target)
    \/ BurnBuildings
    \/ \E delta \in BoomDeltas : DestroyMarkedBuildings(delta)

SpecDestroy == Init /\ [][NextDestroy]_vars

-----------------------------------------------------------------------------
(* Placing a water golem, a storm mage or a minotaur: the whole command,     *)
(* with PlayerResources, the BuildingMode and the entity that tracks the     *)
(* parent forge while placing.  tracker is None when there is no such        *)
(* entity and Some(e) when it holds forge e (0: it holds no forge).  The     *)
(* commands count as steps.                                                  *)

WATER_GOLEM_COST_MANA == 30
\* spawn_storm_mage tests mana < 30 and takes STORM_MAGE_COST_MANA
STORM_MAGE_MANA_TESTED == 30
STORM_MAGE_COST_MANA == 30
\* spawn_minotaur tests and takes 30, not MINOTAUR_COST_MANA
MINOTAUR_MANA_TAKEN == 30
MANA_PER_SECOND == 3

\* mana is not produced beyond this
MaxMana == 30
\* buildings alive at once
MaxBuildings == 3

PlaceModes == {"PlaceWaterGolem", "PlaceStormMage", "PlaceMinotaur"}

\* produce_from_mana_forge, for a forge whose second has passed
ProduceFromManaForge ==
    /\ op # "panic"
    /\ OfType(buildings, "ManaForge") # {}
    /\ resources.mana + MANA_PER_SECOND <= MaxMana
    /\ resources' = [resources EXCEPT !.mana = @ + MANA_PER_SECOND]
    /\ op' = "produce_from_mana_forge"
    /\ pre' = <<>>
    /\ ret' = NoRet
    /\ UNCHANGED <<size_x, size_y, seed, data, meteors, golems, minotaurs, wind, steps,
                   building_mode, tracker, buildings, level, launched, victory>>

\* a toolbar hotkey: from BuildingMode::None the mode becomes the building's,
\* and the tracking entity appears, holding no forge yet
ChoosePlacement(mode) ==
    /\ op # "panic"
    /\ building_mode = "None"
    /\ tracker = None
    /\ building_mode' = mode
    /\ tracker' = Some(0)
    /\ op' = "choose_placement"
    /\ pre' = <<>>
    /\ ret' = NoRet
    /\ UNCHANGED <<size_x, size_y, seed, data, meteors, golems, minotaurs, wind, steps,
                   resources, buildings, level, launched, victory>>

\* while_placing_*: the tracking entity holds the closest forge in reach of
\* the mouse, or none
WhilePlacing(entity) ==
    /\ op # "panic"
    /\ tracker # None
    /\ entity = 0 \/ \E forge \in OfType(buildings, "ManaForge") : forge.id = entity
    /\ tracker' = Some(entity)
    /\ op' = "while_placing"
    /\ pre' = <<>>
    /\ ret' = NoRet
    /\ UNCHANGED <<size_x, size_y, seed, data, meteors, golems, minotaurs, wind, steps,
                   resources, building_mode, buildings, level, launched, victory>>

Largest(S) == CHOOSE x \in S : \A y \in S : y <= x

\* an entity id no building, link or tracker refers to
FreshEntity ==
    1 + Largest({0} \cup {b.id : b \in buildings} \cup {b.from : b \in buildings}
               \cup {b.parent : b \in buildings}
               \cup (IF tracker = None THEN {} ELSE {tracker.val}))

\* forges.get(parent_forge) is Ok
ForgeExists(entity) == \E forge \in OfType(buildings, "ManaForge") : forge.id = entity

\* the command ends without changing anything
Untouched ==
    UNCHANGED <<data, golems, minotaurs, resources, building_mode, tracker, buildings>>

\* the start of spawn_water_golem and spawn_storm_mage: the system does not
\* run without its tracking entity, and returns on too little mana, on a
\* tracker that holds no forge and on coordinates outside the map
PlacementRefused(coords, cost) ==
    \/ tracker = None
    \/ resources.mana < cost
    \/ tracker.val = 0
    \/ ~IsValidCoords(coords)

\* the cells of the footprint become Building
WithFootprint(d, coords) ==
    [c \in Cells |->
        IF c \in Footprint(coords) /\ GetMut(c).tag = "Some"
        THEN [d[c] EXCEPT !.terrain = "Building"] ELSE d[c]]

\* SpawnWaterGolem applied: spawn_water_golem
ApplySpawnWaterGolem(coords) ==
    /\ Running
    /\ MapExists
    /\ building_mode = "PlaceWaterGolem"
    /\ Cardinality(buildings) < MaxBuildings
    /\ IF PlacementRefused(coords, WATER_GOLEM_COST_MANA) THEN Untouched
       ELSE /\ tracker' = None
            /\ resources' = [resources EXCEPT !.mana = @ - WATER_GOLEM_COST_MANA,
                                              !.mana_drain = @ - 1]
            /\ IF ~ForgeExists(tracker.val)
               THEN UNCHANGED <<data, golems, building_mode, buildings>>
               ELSE /\ buildings' = buildings \cup
                          {Building(FreshEntity, "WaterGolem", coords, tracker.val)}
                    /\ golems' = golems \cup {coords}
                    /\ data' = WithFootprint(data, coords)
                    /\ building_mode' = "None"
            /\ UNCHANGED minotaurs
    /\ op' = "spawn_water_golem"
    /\ pre' = <<>>
    /\ ret' = NoRet
    /\ steps' = steps + 1
    /\ UNCHANGED <<size_x, size_y, seed, meteors, wind, level, launched, victory>>

\* SpawnStormMage applied: spawn_storm_mage
ApplySpawnStormMage(coords, rotation) ==
    /\ Running
    /\ MapExists
    /\ building_mode = "PlaceStormMage"
    /\ Cardinality(buildings) < MaxBuildings
    /\ IF PlacementRefused(coords, STORM_MAGE_MANA_TESTED) THEN Untouched
       ELSE /\ tracker' = None
            /\ resources' = [resources EXCEPT !.mana = @ - STORM_MAGE_COST_MANA,
                                              !.mana_drain = @ - 2]
            /\ IF ~ForgeExists(tracker.val)
               THEN UNCHANGED <<data, building_mode, buildings>>
               ELSE /\ buildings' = buildings \cup
                          {[Building(FreshEntity, "StormMage", coords, tracker.val)
                              EXCEPT !.rotation = rotation]}
                    /\ data' = WithFootprint(ApplyToMap(data, coords, rotation), coords)
                    /\ building_mode' = "None"
            /\ UNCHANGED <<golems, minotaurs>>
    /\ op' = "spawn_storm_mage"
    /\ pre' = <<>>
    /\ ret' = NoRet
    /\ steps' = steps + 1
    /\ UNCHANGED <<size_x, size_y, seed, meteors, wind, level, launched, victory>>

\* SpawnMinotaur applied: spawn_minotaur.  The coordinates are not tested,
\* the map is not written, and the minotaur is a child of the forge.
ApplySpawnMinotaur(coords) ==
    /\ Running
    /\ MapExists
    /\ building_mode = "PlaceMinotaur"
    /\ Cardinality(buildings) < MaxBuildings
    /\ IF tracker = None \/ resources.mana < MINOTAUR_MANA_TAKEN \/ tracker.val = 0
       THEN Untouched
       ELSE /\ tracker' = None
            /\ resources' = [resources EXCEPT !.mana = @ - MINOTAUR_MANA_TAKEN]
            /\ IF ~ForgeExists(tracker.val)
               THEN UNCHANGED <<minotaurs, building_mode, buildings>>
               ELSE /\ buildings' = buildings \cup
                          {[Building(FreshEntity, "Minotaur", coords, 0)
                              EXCEPT !.parent = tracker.val]}
                    /\ minotaurs' = minotaurs \cup {[loc |-> coords, location |-> Vec2Zero]}
                    /\ building_mode' = "None"
            /\ UNCHANGED <<data, golems>>
    /\ op' = "spawn_minotaur"
    /\ pre' = <<>>
    /\ ret' = NoRet
    /\ steps' = steps + 1
    /\ UNCHANGED <<size_x, size_y, seed, meteors, wind, level, launched, victory>>

\* blow_up_mana_forge, for a forge with fire on its footprint: the forge is
\* despawned, and with it its children; handle_despawned_buildings observes
\* each despawn (fireballs for the forge)
BlowUpManaForge(forge) ==
    /\ op # "panic"
    /\ MapExists
    /\ forge \in OfType(buildings, "ManaForge")
    /\ OnFire(forge)
    /\ LET gone == {forge} \cup {b \in buildings : b.parent = forge.id}
           on_grid == {c \in Cells : FireballReaches(forge.loc, c) /\ GetMut(c).tag = "Some"}
       IN  /\ buildings' = buildings \ gone
           /\ resources' = [resources EXCEPT !.mana_drain = @ + DrainOfAll(gone)]
           /\ minotaurs' = {m \in minotaurs :
                              ~\E b \in OfType(gone, "Minotaur") : b.loc = m.loc}
           /\ \E hit \in SUBSET on_grid :
                 /\ Cardinality(hit) <= MAX_FIREBALLS
                 /\ hit = {} => Cardinality(on_grid) < FireballTileCount
                 /\ data' = [c \in Cells |->
                              IF c \in hit THEN FireballIgnites(data, c) ELSE data[c]]
    /\ op' = "blow_up_mana_forge"
    /\ pre' = <<>>
    /\ ret' = NoRet
    /\ UNCHANGED <<size_x, size_y, seed, meteors, golems, wind, steps,
                   building_mode, tracker, level, launched, victory>>

\* the forge the player starts from
PlaceGraphs == {{Building(1, "ManaForge", <<0, 0>>, 0)}}
\* the map, where the player clicks (on the map and off it) and where the
\* meteor is aimed
PlaceDims == {<<3, 1>>}
PlaceLocs == {<<2, 0>>, <<7, 0>>}
PlaceStrikes == {<<1, 0>>}
PlaceRotations == {"Left"}

\* mana is saved up before the next building is chosen
SaveUp ==
    /\ op \in {"spawn_buildings", "produce_from_mana_forge", "spawn_water_golem",
               "spawn_storm_mage", "spawn_minotaur"}
    /\ ProduceFromManaForge

NextPlace ==
    \/ \E s \in SweepSeeds, d \in PlaceDims : SpawnMap(s, d[1], d[2])
    \/ \E graph \in PlaceGraphs : SpawnBuildings(graph)
    \/ SaveUp
    \/ \E mode \in PlaceModes : ChoosePlacement(mode)
    \/ \E entity \in 0 .. 1 : WhilePlacing(entity)
    \/ \E coords \in PlaceLocs : ApplySpawnWaterGolem(coords)
    \/ \E coords \in PlaceLocs, rotation \in PlaceRotations :
          ApplySpawnStormMage(coords, rotation)
    \/ \E coords \in PlaceLocs : ApplySpawnMinotaur(coords)
    \/ \E loc \in PlaceStrikes : MeteorStrike(loc)
    \/ \E target \in meteors : MeteorImpact(target)
    \/ \E forge \in buildings : BlowUpManaForge(forge)
    \/ BurnBuildings
    \/ \E delta \in BoomDeltas : DestroyMarkedBuildings(delta)

SpecPlace == Init /\ [][NextPlace]_vars

-----------------------------------------------------------------------------
(* Properties of the tick *)

Offset(c, coord) == <<c[1] + coord[1], c[2] + coord[2]>>

\* some neighbour of c that update examines was on Fire when the tick started
HadExaminedFire(c) ==
    \E idx \in 1 .. NEIGHBOURHOOD_SIZE :
        LET n == Neighbours(c[1], c[2])[idx]
        IN  n.tag = "Some" /\ pre[n.val].terrain = "Fire"

\* C1: update never increases a cell's fuel_load: after a tick every cell's
\* fuel_load is at most what it was and at least 0, a cell that was Fire has
\* lost at most 1, a cell that was not Fire has kept its fuel_load, and a Fire
\* cell with fuel_load 0 is still at 0.
C1_FuelNeverIncreases ==
    op = "update" =>
        \A c \in Cells :
            /\ data[c].fuel_load <= pre[c].fuel_load
            /\ data[c].fuel_load >= 0
            /\ pre[c].terrain = "Fire" => pre[c].fuel_load - data[c].fuel_load <= 1
            /\ pre[c].terrain # "Fire" => data[c].fuel_load = pre[c].fuel_load
            /\ pre[c].terrain = "Fire" /\ pre[c].fuel_load = 0 => data[c].fuel_load = 0

\* a tick in which one Fire cell lost a unit of fuel and a Fire cell with none
\* left burnt out at 0
C1_Witness ==
    /\ op = "update"
    /\ \E c \in Cells :
          /\ pre[c].terrain = "Fire"
          /\ pre[c].fuel_load > 0
          /\ data[c].fuel_load = pre[c].fuel_load - 1
    /\ \E c \in Cells :
          /\ pre[c].terrain = "Fire"
          /\ pre[c].fuel_load = 0
          /\ data[c].terrain = "Smoldering"
          /\ data[c].fuel_load = 0

\* C2: in both tick implementations a tick turns a cell Smoldering only if it
\* was Fire and leaves it with fuel_load 0, and no decay step (a tick in which
\* a Fire cell lost fuel) leaves the cell Fire with fuel_load 0.
C2_SmolderingExactlyAtZero ==
    op \in {"update", "life_tick"} =>
        \A c \in Cells :
            /\ data[c].terrain = "Smoldering" /\ pre[c].terrain # "Smoldering"
                  => pre[c].terrain = "Fire" /\ data[c].fuel_load = 0
            /\ pre[c].terrain = "Fire" /\ data[c].fuel_load < pre[c].fuel_load
                  => ~(data[c].terrain = "Fire" /\ data[c].fuel_load = 0)

\* C3: update leaves every Dirt, Stone and Smoldering cell as it was, in every
\* field, whatever its neighbours are.
C3_InertCellsUnchanged ==
    op = "update" =>
        \A c \in Cells :
            pre[c].terrain \in {"Dirt", "Stone", "Smoldering"} => data[c] = pre[c]

\* a tick that changed the grid next to a Smoldering cell, with a Dirt or
\* Stone cell beside a fire
C3_Witness ==
    /\ op = "update"
    /\ data # pre
    /\ \E c \in Cells :
          /\ pre[c].terrain = "Smoldering"
          /\ \E idx \in 1 .. NEIGHBOURHOOD_SIZE :
                LET n == Offset(c, NEIGHBOUR_COORDINATES[idx])
                IN  n \in Cells /\ pre[n].terrain = "Fire"
    /\ \E c \in Cells :
          /\ pre[c].terrain \in {"Dirt", "Stone"}
          /\ HadExaminedFire(c)

\* C5: the moisture of every cell is within [0, 1], after generation, ticks
\* and water golems.
C5_MoistureInRange ==
    \A c \in Cells : data[c].moisture >= 0 /\ data[c].moisture <= 100

\* a tick dried a cell that was already at 0 beside a fire, on a map where the
\* noise was clamped to 1 for some cell
C5_Witness ==
    /\ op = "update"
    /\ \E c \in Cells :
          /\ pre[c].terrain \in {"Grassland", "Tree"}
          /\ pre[c].moisture = 0
          /\ HadExaminedFire(c)
          /\ data[c].moisture = 0
    /\ \E c \in Cells :
          /\ data[c].moisture = 100
          /\ GetNoise2d(seed, 2 * c[1] + 35, 2 * c[2] + 35) + 50 > 100

\* C6: under fair decay rolls every Fire cell, whatever its fuel_load,
\* eventually becomes Smoldering, and a cell that is Smoldering when a tick
\* starts is Smoldering when it ends.
C6_FireBurnsOut ==
    /\ \A c \in BurnGrid :
          (c \in Cells /\ data[c].terrain = "Fire")
              ~> (c \in Cells /\ data[c].terrain = "Smoldering")
    /\ [][op' = "burn" =>
            \A c \in Cells :
                data[c].terrain = "Smoldering" => data'[c].terrain = "Smoldering"]_vars

\* the ticks have burnt out every fire: a cell generated as Grassland or Tree
\* with fuel for several decay steps, and a cell a forge set on fire with no
\* fuel at all, are Smoldering
C6_Witness ==
    /\ op = "burn"
    /\ \A c \in Cells : data[c].terrain # "Fire"
    /\ \E c \in Cells :
          /\ data[c].terrain = "Smoldering"
          /\ data[c].fuel_load = 0
          /\ NoiseSample(seed, c[1], c[2])[1] \in {"Grassland", "Tree"}
          /\ NoiseSample(seed, c[1], c[2])[2] >= 2
    /\ \E c \in Cells :
          /\ data[c].terrain = "Smoldering"
          /\ NoiseSample(seed, c[1], c[2])[2] = 0

\* C8: GameMap::new produces size_y rows of size_x cells, every cell with the
\* terrain and fuel_load of NoiseMap::sample at its coordinates and every
\* Grassland or Tree cell with the moisture of NoiseMap::moisture, for all
\* dimensions.
C8_NewFillsEveryCell ==
    op = "spawn_map" =>
        /\ DOMAIN data = Grid(size_x, size_y)
        /\ \A c \in Cells :
              /\ data[c].terrain = NoiseSample(seed, c[1], c[2])[1]
              /\ data[c].fuel_load = NoiseSample(seed, c[1], c[2])[2]
              /\ data[c].terrain \in {"Grassland", "Tree"}
                    => data[c].moisture = NoiseMoisture(seed, c[1], c[2])

\* C9: for a cell of the grid each of the 8 neighbour offsets is examined
\* exactly when the neighbour coordinate is on the grid: neighbours returns
\* None only for coordinates off the grid.
C9_NeighboursExactlyOnGrid ==
    MapExists =>
        \A c \in Cells : \A idx \in 1 .. NEIGHBOURHOOD_SIZE :
            Neighbours(c[1], c[2])[idx].tag = "Some"
                <=> IsValidCoords(Offset(c, NEIGHBOUR_COORDINATES[idx]))

-----------------------------------------------------------------------------
(* Properties of the commands and the accessors *)

\* C10: an ignition command turns a cell into Fire only if the cell was
\* flammable (Grassland, Tree or Building): no Dirt, Stone or Smoldering cell
\* is turned into Fire by a command.
C10_OnlyFlammableIgnited ==
    op \in {"meteor_impact", "forge_explosion"} =>
        \A c \in Cells :
            data[c].terrain = "Fire" /\ pre[c].terrain # "Fire"
                => pre[c].terrain \in Flammable

\* C4: get and get_mut return Some exactly when is_valid_coords holds, that is
\* when 0 <= x < size_x and 0 <= y < size_y, and then refer to the cell asked
\* for; is_on_fire is false for every invalid loc; none of them panics or
\* changes the map.
C4_AccessorsBoundsChecked ==
    op = "probe" =>
        LET on_grid == /\ 0 <= ret.loc[1] /\ ret.loc[1] < size_x
                       /\ 0 <= ret.loc[2] /\ ret.loc[2] < size_y
        IN  /\ ret.valid <=> on_grid
            /\ ret.get = (IF on_grid THEN Some(ret.loc) ELSE None)
            /\ ret.get_mut = (IF on_grid THEN Some(ret.loc) ELSE None)
            /\ ~on_grid => ~ret.on_fire
            /\ on_grid => (ret.on_fire <=> data[ret.loc].terrain = "Fire")
            /\ ~ret.panicked
            /\ data = pre

\* the accessors were asked about a coordinate past the right edge and below
\* row 0, on a map with a cell on fire
C4_Witness ==
    /\ op = "probe"
    /\ ret.loc[1] >= size_x
    /\ ret.loc[2] < 0
    /\ ret.get = None
    /\ ~ret.on_fire
    /\ \E c \in Cells : data[c].terrain = "Fire"

-----------------------------------------------------------------------------
(* Properties of rendering and of the buildings *)

\* C11: every handler that changes a cell's terrain sets the cell's dirty flag
\* in the same step: after any handler that ran on an existing map, a cell
\* whose terrain differs from what it was when the handler started is dirty,
\* so that no cell's terrain differs from the one last drawn while its dirty
\* flag is false.
C11_TerrainChangeSetsDirty ==
    (MapExists /\ DOMAIN pre = Cells) =>
        \A c \in Cells : data[c].terrain # pre[c].terrain => data[c].dirty

\* C12: a meteor strike never fails: a strike leaves every cell as it was and
\* spawns meteors on valid coordinates only, and an impact never aborts the
\* program: with no Grassland, Tree or Building cell within range 5 of its
\* target it changes no cell.
C12_MeteorNeverFails ==
    /\ op = "meteor_strike" => (data = pre /\ \A t \in meteors : IsValidCoords(t))
    /\ op = "meteor_impact" =>
          ((\A c \in Cells : pre[c].terrain \notin Flammable) => data = pre)
    /\ op # "panic"

\* C13: the buildings that scan cells never read outside the grid: the
\* coordinates cells_within_range hands to the water golem and the lumber
\* mill are valid, and no building's scan indexes map.data out of range (which
\* would abort the program).
C13_BuildingsReadOnGrid ==
    /\ MapExists =>
          /\ \A loc \in golems :
                \A c \in SeqToSet(CellsWithinRange(loc, WATER_GOLEM_RANGE)) : IsValidCoords(c)
          /\ \A loc \in MillLocs :
                \A c \in SeqToSet(CellsWithinRange(loc, LUMBER_MILL_RANGE)) : IsValidCoords(c)
    /\ op # "panic"

\* the cell c is within range of center: (c.x - center.x)^2 + (c.y - center.y)^2
\* <= range^2 in the integers
WithinRange(c, center, range) ==
    LET dx == c[1] - center[1]
        dy == c[2] - center[2]
    IN  /\ dx \in -range .. range
        /\ dy \in -range .. range
        /\ dx * dx <= range * range - dy * dy

\* what cells_within_range returned is, exactly once each, the cells of the grid
\* within range of the center, and the map is as it was
RangeExact ==
    /\ \A i, j \in 1 .. Len(ret.cells) : i # j => ret.cells[i] # ret.cells[j]
    /\ SeqToSet(ret.cells) = {c \in Cells : WithinRange(c, ret.loc, ret.range)}
    /\ data = pre

\* no squared distance from the center to a cell of the grid exceeds i32::MAX
SquaresFit(center) ==
    \A c \in Cells :
        LET dx == c[1] - center[1]
            dy == c[2] - center[2]
        IN  /\ dx \in -SQRT_I32_MAX .. SQRT_I32_MAX
            /\ dy \in -SQRT_I32_MAX .. SQRT_I32_MAX
            /\ dx * dx <= I32_MAX - dy * dy

AtLeast(a, b) == a.tag = "Some" /\ b.tag = "Some" /\ a.val >= b.val

\* the neighbour index on the other side of the cell
Across(idx) == ((idx + 3) % NEIGHBOURHOOD_SIZE) + 1

\* C15: with the wind vector taken as the direction the wind blows toward, a
\* flammable cell directly downwind of a Fire neighbour (the wind at the cell
\* blows from that neighbour to the cell) has a burn_chance at least as high
\* as the same cell would have directly upwind of one, and at least
\* base_probability * (1 - moisture).
C15_DownwindBurnsAtLeastAsEasily ==
    MapExists =>
        \A c \in Cells, idx \in 1 .. NEIGHBOURHOOD_SIZE, global_wind \in GlobalWinds :
            LET fire == Offset(c, NEIGHBOUR_COORDINATES[idx])
                blows == <<data[c].wind[1] + global_wind[1],
                           data[c].wind[2] + global_wind[2]>>
                from_fire == <<-NEIGHBOUR_VECTOR[idx][1], -NEIGHBOUR_VECTOR[idx][2]>>
            IN  (/\ data[c].terrain \in {"Grassland", "Tree"}
                 /\ fire \in Cells
                 /\ data[fire].terrain = "Fire"
                 /\ AngleIsZero(blows, from_fire))
                => /\ AtLeast(BurnChanceFrom(data[c], global_wind, idx),
                              BurnChanceFrom(data[c], global_wind, Across(idx)))
                   /\ AtLeast(BurnChanceFrom(data[c], global_wind, idx),
                              Some(BurnChance(data[c])))

-----------------------------------------------------------------------------
(* Properties of the wind *)

\* the angular distance from the angle a to the angle t, around the circle
AngularDistance(a, t) == Min((t - a) % FULL_TURN, (a - t) % FULL_TURN)

\* C16 (a tick finds the angle a and the target t and leaves a2 and t2): from
\* angle 0, target 90 and variance 45, with a fixed small timestep:
\* no tick increases the angular distance to the target; the angle eventually
\* comes within 1 degree of the target; and the tick that brings it there sets
\* the angle to the target exactly and draws a new target within
\* [angle - variance, angle + variance] taken mod 360.
C16_ConvergesThenSnaps ==
    /\ [][op' = "wandery_wind" =>
            LET a == wind.val.angle
                t == wind.val.target
                v == wind.val.variance
                a2 == wind'.val.angle
                t2 == wind'.val.target
            IN  /\ AngularDistance(a2, t) <= AngularDistance(a, t)
                /\ IF AngularDistance(a, t) - WIND_DELTA < SNAP_DISTANCE
                   THEN /\ a2 = t
                        /\ \E x \in a2 - v .. a2 + v : t2 = x % FULL_TURN
                   ELSE /\ t2 = t
                        /\ AngularDistance(a2, t) = AngularDistance(a, t) - WIND_DELTA]_vars
    /\ (op = "wind_scenario") ~> (wind.tag = "Some" /\ wind.val.angle = SCENARIO_TARGET)

\* the scenario has reached its target and drawn a different one
C16_Witness ==
    /\ op = "wandery_wind"
    /\ wind.val.angle = SCENARIO_TARGET
    /\ wind.val.target # SCENARIO_TARGET
    /\ wind.val.variance = 90

\* C17: on every wandery_wind tick, whatever angle and target it finds, the
\* angle rotates in the direction in which the angular distance to the target,
\* taken mod 360, is the smaller.
C17_RotatesTheShorterWay ==
    wind.tag = "Some" =>
        LET increasing == (wind.val.target - wind.val.angle) % FULL_TURN
            decreasing == (wind.val.angle - wind.val.target) % FULL_TURN
        IN  /\ DirectionSign(wind.val) = 1 => increasing <= decreasing
            /\ DirectionSign(wind.val) = -1 => decreasing <= increasing

\* C18: in every reachable WindDirection the angle is in [0, 360) and the
\* target is in [0, 360).
C18_AnglesWithinOneTurn ==
    wind.tag = "Some" =>
        /\ wind.val.angle \in 0 .. FULL_TURN - 1
        /\ wind.val.target \in 0 .. FULL_TURN - 1

StrengthInRange == wind.val.strength \in MIN_WIND_SPEED .. MAX_WIND_SPEED

\* C19 (as stated): the strength is within [MIN_WIND_SPEED, MAX_WIND_SPEED]
\* after Default, after any number of ticks and after override, and each tick
\* changes the strength by less than WIND_STRENGTH_VARIANCE before clamping.
C19_StrengthAlwaysInRange ==
    /\ [](wind.tag = "Some" => StrengthInRange)
    /\ [][op' = "wandery_wind" =>
            \E drift \in -(WIND_STRENGTH_VARIANCE - 1) .. WIND_STRENGTH_VARIANCE - 1 :
                wind'.val.strength
                    = Clamp(wind.val.strength + drift, MIN_WIND_SPEED, MAX_WIND_SPEED)]_vars

\* C19 (amended): the strength is within [MIN_WIND_SPEED, MAX_WIND_SPEED]
\* after Default and after every tick, whatever the tick found; override
\* stores the strength it is given; and each tick changes the strength by at
\* most WIND_STRENGTH_VARIANCE before clamping.
C19_StrengthInRangeAfterTicks ==
    /\ []((wind.tag = "Some" /\ op \in {"wind_default", "wandery_wind"}) => StrengthInRange)
    /\ [][op' = "wandery_wind" =>
            \E drift \in -WIND_STRENGTH_VARIANCE .. WIND_STRENGTH_VARIANCE :
                wind'.val.strength
                    = Clamp(wind.val.strength + drift, MIN_WIND_SPEED, MAX_WIND_SPEED)]_vars
    /\ [][\A call \in OverrideCalls :
            Override(call[1], call[2]) => wind'.val.strength = call[2]]_vars

\* a tick has clamped a strength it found out of range, and another has
\* lowered the strength by the whole of WIND_STRENGTH_VARIANCE
C19_Witness ==
    /\ op = "wandery_wind"
    /\ wind.val.strength = MAX_WIND_SPEED - WIND_STRENGTH_VARIANCE

-----------------------------------------------------------------------------
(* Properties of ignition in GameMap::update *)

\* the indices of the neighbours of c that GameMap::neighbours yields
Yielded(c) ==
    {idx \in 1 .. NEIGHBOURHOOD_SIZE :
        Neighbour(c[1], c[2], NEIGHBOUR_COORDINATES[idx]).tag = "Some"}

NeighbourAt(c, idx) == Neighbour(c[1], c[2], NEIGHBOUR_COORDINATES[idx]).val

\* position of a cell in the order of the loops of update
VisitIndex(c) == c[2] * size_x + c[1]

\* the terrain the tick that led here read at n when it visited c: cells are
\* visited once, so n has its new terrain if it came before c and its old one
\* otherwise
TerrainAtVisit(c, n) ==
    IF VisitIndex(n) < VisitIndex(c) THEN data[n].terrain ELSE pre[n].terrain

\* the neighbours up to and including the k-th for which moisture is decremented
FiresUpTo(c, k, terrainAt(_)) ==
    Cardinality({idx \in Yielded(c) : idx <= k /\ terrainAt(NeighbourAt(c, idx)) = "Fire"})

TerrainNow(n) == data[n].terrain

Ignited(cell, fires) ==
    [cell EXCEPT !.terrain = "Fire", !.dirty = TRUE,
                 !.moisture = Max(cell.moisture - fires * MOISTURE_DECAY_RATE, 0)]

\* C20: a Grassland or Tree cell that ignites in update becomes Fire with dirty
\* set and its fuel_load unchanged; the loop over its neighbours stops at the
\* igniting neighbour, so the neighbours read are those up to it and moisture
\* is decremented once for each Fire neighbour up to and including it; no
\* other cell is touched; and over a whole tick the cell changes terrain at
\* most once.
C20_IgnitionStopsTheScan ==
    /\ MapExists =>
        \A c \in Cells :
            data[c].terrain \in {"Grassland", "Tree"} =>
                /\ {s.grid : s \in Scan(data, c, 1)} = ScanNeighbours(data, c, 1)
                /\ \A s \in Scan(data, c, 1) :
                      s.grid[c].terrain = "Fire" =>
                          \E k \in Yielded(c) :
                              /\ TerrainNow(NeighbourAt(c, k)) = "Fire"
                              /\ s.examined = {idx \in Yielded(c) : idx <= k}
                              /\ s.grid = [data EXCEPT
                                              ![c] = Ignited(@, FiresUpTo(c, k, TerrainNow))]
    /\ op = "update" =>
        \A c \in Cells :
            pre[c].terrain \in {"Grassland", "Tree"} =>
                /\ data[c].terrain \in {pre[c].terrain, "Fire"}
                /\ data[c].terrain = "Fire" =>
                      \E k \in Yielded(c) :
                          /\ TerrainAtVisit(c, NeighbourAt(c, k)) = "Fire"
                          /\ data[c] = Ignited(pre[c],
                                               FiresUpTo(c, k, LAMBDA n : TerrainAtVisit(c, n)))

\* a tick has set on fire a cell that had two burning neighbours, at the first
\* of them: its moisture went down once, not twice
C20_Witness ==
    /\ op = "update"
    /\ \E c \in Cells :
          /\ pre[c].terrain \in {"Grassland", "Tree"}
          /\ data[c].terrain = "Fire"
          /\ pre[c].moisture >= 2 * MOISTURE_DECAY_RATE
          /\ data[c].moisture = pre[c].moisture - MOISTURE_DECAY_RATE
          /\ Cardinality({idx \in Yielded(c) :
                            TerrainAtVisit(c, NeighbourAt(c, idx)) = "Fire"}) >= 2

\* the cells of the grid next to c
OnGridNeighbours(c) ==
    {<<c[1] + NEIGHBOUR_COORDINATES[idx][1], c[2] + NEIGHBOUR_COORDINATES[idx][2]>> :
        idx \in 1 .. NEIGHBOURHOOD_SIZE} \cap Cells

\* C21: a Grassland or Tree cell that a tick leaves unignited has had its
\* moisture lowered by MOISTURE_DECAY_RATE for each neighbour on the grid that
\* was Fire when the cell was visited, floored at 0, whatever the rolls.
C21_MoistureDropsPerFireNeighbour ==
    op = "update" =>
        \A c \in Cells :
            (pre[c].terrain \in {"Grassland", "Tree"} /\ data[c].terrain = pre[c].terrain) =>
                data[c].moisture =
                    Max(pre[c].moisture
                          - MOISTURE_DECAY_RATE
                              * Cardinality({n \in OnGridNeighbours(c) :
                                               TerrainAtVisit(c, n) = "Fire"}), 0)

\* c went from Grassland or Tree to Fire in the tick that led here
IgnitedInTick(c) == pre[c].terrain \in {"Grassland", "Tree"} /\ data[c].terrain = "Fire"

\* C22: update visits each cell once, row by row, on the one array: a cell that
\* ignites in a tick has a neighbour that was Fire when the tick started or
\* that comes earlier in row-major order and ignited in this tick, and it
\* keeps its fuel_load; a cell that was Fire loses at most one unit of fuel;
\* every other cell keeps its terrain.
C22_SweepIsRowMajorInPlace ==
    op = "update" =>
        \A c \in Cells :
            /\ IgnitedInTick(c) =>
                  /\ data[c].fuel_load = pre[c].fuel_load
                  /\ \E n \in OnGridNeighbours(c) :
                        \/ pre[n].terrain = "Fire"
                        \/ VisitIndex(n) < VisitIndex(c) /\ IgnitedInTick(n)
            /\ pre[c].terrain = "Fire" =>
                  /\ data[c].fuel_load \in
                        {pre[c].fuel_load, U8SaturatingSub(pre[c].fuel_load, 1)}
                  /\ data[c].terrain \in {"Fire", "Smoldering"}
            /\ pre[c].terrain \notin {"Fire", "Grassland", "Tree"} => data[c] = pre[c]
            /\ pre[c].terrain \in {"Grassland", "Tree"} =>
                  data[c].terrain \in {pre[c].terrain, "Fire"}

\* fire has advanced two cells along the sweep in one tick: a cell none of
\* whose neighbours was Fire when the tick started has ignited
C22_Witness ==
    /\ op = "update"
    /\ \E c \in Cells :
          /\ IgnitedInTick(c)
          /\ \A n \in OnGridNeighbours(c) : pre[n].terrain # "Fire"

\* C26: fire never arises spontaneously.  A tick leaves a Grassland or Tree
\* cell exactly as it was when none of its neighbours on the grid was Fire at
\* the time the cell was visited; a grid without a Fire cell is a fixed point
\* of update; and a freshly generated map holds only Dirt, Grassland, Tree
\* and Stone.
C26_NoFireWithoutFire ==
    /\ op = "update" =>
        \A c \in Cells :
            (/\ pre[c].terrain \in {"Grassland", "Tree"}
             /\ \A n \in OnGridNeighbours(c) : TerrainAtVisit(c, n) # "Fire")
            => data[c] = pre[c]
    /\ (MapExists /\ \A c \in Cells : data[c].terrain # "Fire") =>
        UpdateFrom(data, 0) = {data}
    /\ op = "spawn_map" =>
        \A c \in Cells : data[c].terrain \in {"Dirt", "Grassland", "Tree", "Stone"}

\* a tick has run on a grid that burns in one place and left alone a Grassland
\* or Tree cell, not bone dry, that had no Fire beside it
C26_Witness ==
    /\ op = "update"
    /\ \E f \in Cells : pre[f].terrain = "Fire"
    /\ \E c \in Cells :
          /\ pre[c].terrain \in {"Grassland", "Tree"}
          /\ pre[c].moisture > 0
          /\ \A n \in OnGridNeighbours(c) : TerrainAtVisit(c, n) # "Fire"

C28_GlobalWindAloneChangesNothing ==
    MapExists =>
        /\ \A c \in Cells :
              data[c].wind = Vec2Zero =>
                  \A idx \in 1 .. NEIGHBOURHOOD_SIZE, global_wind \in GlobalWinds :
                      BurnChanceFrom(data[c], global_wind, idx) = Some(BurnChance(data[c]))
        /\ (\A c \in Cells : data[c].wind = Vec2Zero) =>
              \A global_wind \in GlobalWinds :
                  UpdateUnderWind(data, 0, global_wind)
                      = {[grid |-> d, panicked |-> FALSE] : d \in UpdateFrom(data, 0)}

\* a grid without storm mages on which a Grassland or Tree cell can catch
\* fire from a burning neighbour
C28_Witness ==
    /\ MapExists
    /\ \A c \in Cells : data[c].wind = Vec2Zero
    /\ \E c \in Cells :
          /\ data[c].terrain \in {"Grassland", "Tree"}
          /\ CanIgnite(Dry(data[c]))
          /\ \E n \in OnGridNeighbours(c) : data[n].terrain = "Fire"

-----------------------------------------------------------------------------
(* Properties of story mode *)

\* the bolts of a level as spawn_story_meteor_bolts records them
Scheduled(lvl) ==
    [i \in 1 .. Len(LevelData(lvl).bolts) |->
        [time |-> LevelData(lvl).bolts[i][1], loc |-> LevelData(lvl).bolts[i][2]]]

Forget(l) == [i \in 1 .. Len(l) |-> [time |-> l[i].time, loc |-> l[i].loc]]

\* C23: the bolts launched so far followed by the bolts still queued are the
\* bolts of the level, in their order (each is launched once, in queue
\* order); a frame launches at most one bolt; no bolt is launched while
\* elapsed_time is below its scheduled time; and while frames keep coming
\* every bolt is launched and the queue becomes empty.
C23_BoltsLaunchInOrderWhenDue ==
    /\ [](level.tag = "Some" =>
            /\ Forget(launched) \o
                 [i \in 1 .. Len(level.val.bolts) |->
                    [time |-> level.val.bolts[i][1], loc |-> level.val.bolts[i][2]]]
                 = Scheduled(level.val.level_number)
            /\ \A i \in 1 .. Len(launched) : launched[i].at >= launched[i].time)
    /\ [][Len(launched') <= Len(launched) + 1]_vars
    /\ (level.tag = "Some") ~> (level.tag = "Some" /\ level.val.bolts = <<>>)

\* the two bolts scheduled for the same time have been launched, in two frames
C23_Witness ==
    /\ level.tag = "Some"
    /\ level.val.level_number = 1
    /\ level.val.bolts = <<>>
    /\ Len(launched) = 4
    /\ launched[3].time = launched[4].time

\* C25: when track_victory_conditions finds the victory condition met, every
\* bolt of the level has been launched, no meteor is in flight and no cell is
\* on Fire.
C25_VictoryOnlyWhenAllOver ==
    (op = "track_victory_conditions" /\ victory) =>
        /\ level.val.bolts = <<>>
        /\ meteors = {}
        /\ ~AnyOnFire

-----------------------------------------------------------------------------
(* Properties of building destruction *)

\* the buildings burn_buildings finds on fire: unmarked, fire on the footprint
FoundOnFire == {b \in buildings : b.boom = None /\ OnFire(b)}

\* the ids of S and of every building that depends on one of them through a
\* chain of ManaEntityLink.from_entity
RECURSIVE Dependents(_, _)
Dependents(bs, S) ==
    LET more == S \cup {b.id : b \in {x \in bs : x.from \in S}}
    IN  IF more = S THEN S ELSE Dependents(bs, more)

After(id) == CHOOSE x \in buildings' : x.id = id

\* every building of the set stays, marked, with a time the predicate accepts
MarkedAfter(ids, Accepts(_)) ==
    \A id \in ids : /\ \E x \in buildings' : x.id = id
                    /\ After(id).boom # None
                    /\ Accepts(After(id).boom.val)

\* destroy_marked_buildings despawns the marked buildings whose time has run
\* down to 0 or below, counts the others down, and leaves the unmarked alone
CountdownDespawns ==
    op' = "destroy_marked_buildings" =>
        \A b \in buildings :
            IF b.boom = None THEN b \in buildings'
            ELSE LET left == b.boom.val - pre'[1]
                 IN  IF left > 0 THEN [b EXCEPT !.boom = Some(left)] \in buildings'
                     ELSE ~\E x \in buildings' : x.id = b.id

\* C24 as stated (burn_buildings marks exactly a burning linked building and
\* its dependents, the building with 1.0 and the dependents with >= 2.0, and
\* destroy_marked_buildings despawns the marked at 0): whenever a linked
\* building other than the City Hall is found on fire, the run leaves it
\* marked with 1, everything depending on it marked with 2 or more, and
\* every other building as it was
C24_MarksExactlyTheDependents ==
    [][/\ op' = "burn_buildings" =>
            \A b \in {x \in FoundOnFire : x.type # "CityHall" /\ x.from # 0} :
                LET reach == Dependents(buildings, {b.id})
                IN  /\ MarkedAfter({b.id}, LAMBDA t : t = 1)
                    /\ MarkedAfter(reach \ {b.id}, LAMBDA t : t >= 2)
                    /\ \A x \in buildings : x.id \notin reach => x \in buildings'
       /\ CountdownDespawns]_vars

\* C24, amended: in a run that finds no City Hall on fire, every building on
\* fire that is not the City Hall and everything depending on one of them is
\* left marked (if it carries a link) and every other building is left as it
\* was; the time is 1 for a linked building on fire that depends on no other
\* building on fire, 2 or more for a dependent that is not itself on fire,
\* and one of the two otherwise.  In a run that finds the City Hall on fire
\* only the marks differ: no building but a City Hall is despawned.  Marked
\* buildings are despawned once their time is 0 or below.
C24_MarksTheUnionOfDependents ==
    [][/\ op' = "burn_buildings" =>
            LET found == {b.id : b \in FoundOnFire}
                reach == Dependents(buildings, found)
                linked == {b.id : b \in {x \in buildings : x.from # 0}}
                under(id) == \E c \in found \ {id} : id \in Dependents(buildings, {c})
            IN  /\ \A b \in buildings :
                       b.type # "CityHall" => \E x \in buildings' : x.id = b.id
                /\ \A b \in buildings :
                       /\ b.id \notin reach \cap linked
                       /\ ~(b.type = "CityHall" /\ b \in FoundOnFire)
                       => b \in buildings'
                /\ (\A b \in FoundOnFire : b.type # "CityHall") =>
                      /\ MarkedAfter({id \in found \cap linked : ~under(id)},
                                     LAMBDA t : t = 1)
                      /\ MarkedAfter((reach \cap linked) \ found, LAMBDA t : t >= 2)
                      /\ MarkedAfter(reach \cap linked, LAMBDA t : t >= 1)
       /\ CountdownDespawns]_vars

\* C24 witness: burn_buildings has run on a cycle of three links and marked
\* the building on fire with 1 and the two that depend on it with 2 and 3
C24_Witness ==
    /\ op = "burn_buildings"
    /\ \E b, x, y \in buildings :
          /\ b.from = y.id /\ y.from = x.id /\ x.from = b.id
          /\ b.boom = Some(1) /\ x.boom = Some(2) /\ y.boom = Some(3)

\* C24 witness of the countdown: a marked building has been despawned
C24_Despawned ==
    /\ op = "destroy_marked_buildings"
    /\ \E id \in 1..4 : ~\E b \in buildings : b.id = id
-----------------------------------------------------------------------------
(* Properties of placement *)

\* what placing a building of the type adds to mana_drain
PlacedDrain(type) ==
    CASE type = "WaterGolem" -> -1
      [] type = "StormMage" -> -2
      [] OTHER -> 0

RECURSIVE PlacedDrainOfAll(_)
PlacedDrainOfAll(bs) ==
    IF bs = {} THEN 0
    ELSE LET b == CHOOSE x \in bs : TRUE
         IN  PlacedDrain(b.type) + PlacedDrainOfAll(bs \ {b})

\* the buildings the step despawns
Despawned == {b \in buildings : ~\E x \in buildings' : x.id = b.id}

\* C29: the despawn of a water golem or a storm mage takes back what its
\* placement added to mana_drain: a frame of destroy_marked_buildings that
\* despawns such buildings changes mana_drain by the opposite of what their
\* placements added.
C29_DespawnUndoesPlacement ==
    [][(op' = "destroy_marked_buildings"
          /\ \A b \in Despawned : b.type \in {"WaterGolem", "StormMage"})
         => resources'.mana_drain
              = resources.mana_drain - PlacedDrainOfAll(Despawned)]_vars

\* a placement command that was applied and spawned no building
EndsWithoutBuilding ==
    /\ op' \in {"spawn_water_golem", "spawn_storm_mage", "spawn_minotaur"}
    /\ buildings' = buildings

\* C30: a placement command that ends without spawning a building leaves
\* PlayerResources, the map cells, the BuildingMode and the tracking entity
\* as they were.
C30_FailedPlacementChangesNothing ==
    [][EndsWithoutBuilding =>
          UNCHANGED <<resources, data, building_mode, tracker>>]_vars
=============================================================================
